---- MODULE Spec2Model ----
(***************************************************************************)
(* Verification model of the finsaas backtesting core: Series, BarContext, *)
(* SimulatedBroker, Portfolio, EventLoop, the Strategy order API and       *)
(* repeated runs of BacktestRunner.                                        *)
(*                                                                         *)
(* Decimal values are modelled as integers.  Bar prices are multiples of   *)
(* 100 and percentage rates are whole multiples of 10 percent, so every    *)
(* product price * rate and price * quantity * rate that the engine forms  *)
(* is an exact integer, as it is an exact Decimal in the source.           *)
(***************************************************************************)
EXTENDS Integers, Sequences, FiniteSets, TLC

\* ---------------------------------------------------------------- bounds
MaxBarsBack == 2      \* max_bars_back of the series of the model
MaxCommits == 3       \* commits applied to the stand-alone series
MaxUserSeries == 1    \* series a caller adds to a context
NumBars == 3          \* bars of the feed
MaxOrders == 2        \* orders a strategy creates in one run
MaxDims == 2          \* dimensions of a parameter space
MaxValues == 2        \* values of one dimension
MaxTrials == 4        \* combinations of a parameter space

\* ------------------------------------------------------ program constants
\* `None`: stored by Series.commit on an empty buffer, and the value of an
\* absent optional field (limit_price, stop_price, filled_at, ...).
None == -1
\* _SENTINEL: "no current value staged".
SENTINEL == -2

\* Values a caller stages into a series.
SeriesValues == {1, 2}

VARIABLES
    \* --- a stand-alone Series
    ser,              \* the Series object
    ser_log,          \* history: every value commit() stored, oldest first
    ser_pure,         \* history: every commit() so far had a staged value
    ser_last,         \* history: name of the last Series operation
    \* --- BarContext
    bar_state,        \* BarContext._bar_state
    ctx_bar_index,    \* BarContext._bar_index
    series_registry,  \* BarContext._series_registry (built-ins first)
    ctx_last,         \* history: name of the last context operation
    \* --- inputs of a run
    bars,             \* list(feed): the bars, oldest first
    commission_model, \* SimulatedBroker._commission
    slippage_model,   \* SimulatedBroker._slippage
    uuid_stream,      \* the tokens uuid4 hands out, in order
    \* --- EventLoop
    pc,               \* position of EventLoop.run
    bar_index,        \* bar_index of the enumerate loop in run
    order_queue,      \* EventLoop._order_queue: <<order ref, action>>
    action_map,       \* EventLoop._action_map: order id -> action
    \* --- SimulatedBroker and the Order objects
    orders,           \* every Order object created, by reference
    pending_orders,   \* SimulatedBroker._pending_orders: order refs
    \* --- Portfolio
    portfolio,
    \* --- history of the run
    enq_bar,          \* per order: the bar whose on_bar created it
    match_log,        \* <<order ref, bar index>> pairs given to _try_fill
    last_fills,       \* the fills process_bar returned for the current bar
    applied_log,      \* <<order id, action>> of every process_fill call
    cancel_ret,       \* <<tag, count>>: argument and return value of the
                      \* cancel_all call just made on the broker alone
    api_call,         \* the last order method the strategy called in a run
                      \* that records them, with the bar and the length of
                      \* the order queue before it
    \* --- the optimizer
    ranges,           \* ParameterSpace._ranges
    max_workers,      \* GridSearchOptimizer._max_workers
    maximize,         \* ObjectiveFunction.maximize of the objective
    param_sets,       \* param_sets of GridSearchOptimizer.run
    futures,          \* run_parallel_trials: trial indices of the futures
                      \* that as_completed has not yielded yet
    results,          \* results of run_parallel_trials
    completed,        \* history: trial indices in the order as_completed
                      \* yielded their futures
    opt_result,       \* the OptimizationResult run returned
    backtest_of,      \* trial index -> what a backtest of its parameter set does
    \* --- repeated runs of one strategy
    run_no,           \* 0: a single run; 1, 2: first and second of two runs
    plan,             \* the strategy: the calls it makes, <<bar index, call>>
    result1           \* the BacktestResult of the first run

serVars == <<ser, ser_log, ser_pure, ser_last>>
ctxVars == <<bar_state, ctx_bar_index, series_registry, ctx_last>>
inputVars == <<bars, commission_model, slippage_model, uuid_stream>>
loopVars == <<pc, bar_index, order_queue, action_map>>
brokerVars == <<orders, pending_orders>>
histVars == <<enq_bar, match_log, last_fills, applied_log, cancel_ret,
              api_call>>
detVars == <<run_no, plan, result1>>
runVars == <<inputVars, loopVars, brokerVars, portfolio, histVars, detVars>>
optVars == <<ranges, max_workers, maximize, param_sets, futures, results,
            completed, opt_result, backtest_of>>
vars == <<serVars, ctxVars, runVars, optVars>>

\* No optimizer is running.
OptIdle ==
    /\ ranges = <<>>
    /\ max_workers = 1
    /\ maximize = TRUE
    /\ param_sets = <<>>
    /\ futures = {}
    /\ results = <<>>
    /\ completed = <<>>
    /\ opt_result = <<>>
    /\ backtest_of = <<>>

\* ================================================================ Series
\* Series.__init__
SeriesInit(max_bars_back, name) ==
    [buffer |-> <<>>, max_bars_back |-> max_bars_back,
     current |-> SENTINEL, committed |-> FALSE, name |-> name]

\* Variant of appendleft that adds the new value at the old end of the
\* buffer (deque.append) and drops the newest-side element when full.
appendright(buffer, v, maxlen) ==
    LET b == buffer \o <<v>>
    IN  IF Len(b) > maxlen THEN SubSeq(b, 2, Len(b)) ELSE b

\* Variant of appendleft for a deque without maxlen: nothing is evicted.
appendleft_unbounded(buffer, v, maxlen) == <<v>> \o buffer

\* deque(maxlen=n).appendleft(v): the newest value is at the left (index 1
\* here); a full deque drops its rightmost, i.e. oldest, element.
appendleft(buffer, v, maxlen) ==
    LET b == <<v>> \o buffer
    IN  IF Len(b) > maxlen THEN SubSeq(b, 1, maxlen) ELSE b

\* Series.current setter
set_current(s, value) == [s EXCEPT !.current = value, !.committed = FALSE]

\* Decimal("NaN"), a value a series can hold.
NaN == -3

\* na: the value is None or NaN.
na(value) == value = None \/ value = NaN

\* Variant of commit_value that stores None whenever nothing is staged.
commit_value_absent(s) ==
    IF s.current = SENTINEL THEN None ELSE s.current

\* Series.commit, the value it stores: the staged value, else the newest
\* committed value again, else None.
commit_value(s) ==
    IF s.current = SENTINEL
    THEN (IF Len(s.buffer) > 0 THEN s.buffer[1] ELSE None)
    ELSE s.current

\* Series.commit
commit(s) ==
    [s EXCEPT !.buffer = appendleft(s.buffer, commit_value(s), s.max_bars_back),
              !.current = SENTINEL,
              !.committed = TRUE]

\* Variant of rollback that keeps the staged value.
rollback_keep(s) == s

\* Variant of rollback that also drops the newest committed value.
rollback_pop(s) == [s EXCEPT !.current = SENTINEL, !.buffer = Tail(@ \o <<None>>)]

\* Series.rollback
rollback(s) == [s EXCEPT !.current = SENTINEL]

\* Variant of _get_single that does not shift the offset while a value is
\* staged.
get_single_noshift(s, index) ==
    IF index = 0 /\ s.current # SENTINEL
    THEN [err |-> "", val |-> s.current]
    ELSE LET buf_index == index
         IN  IF buf_index < 0
             THEN [err |-> "SeriesIndexError", val |-> None]
             ELSE IF buf_index >= Len(s.buffer)
             THEN [err |-> "InsufficientDataError", val |-> None]
             ELSE [err |-> "", val |-> s.buffer[buf_index + 1]]

\* Series._get_single: err is "" on success, else the exception raised.
get_single(s, index) ==
    IF index = 0 /\ s.current # SENTINEL
    THEN [err |-> "", val |-> s.current]
    ELSE LET buf_index == IF s.current # SENTINEL /\ index > 0
                          THEN index - 1 ELSE index
         IN  IF buf_index < 0
             THEN [err |-> "SeriesIndexError", val |-> None]
             ELSE IF buf_index >= Len(s.buffer)
             THEN [err |-> "InsufficientDataError", val |-> None]
             ELSE [err |-> "", val |-> s.buffer[buf_index + 1]]

\* Series.__len__
series_len(s) == Len(s.buffer)

\* ------------------------------------------- operations on a stand-alone series
InitSeries ==
    /\ ser = SeriesInit(MaxBarsBack, "test")
    /\ ser_log = <<>>
    /\ ser_pure = TRUE
    /\ ser_last = "init"

SeriesSetCurrent ==
    \E v \in SeriesValues :
        /\ ser' = set_current(ser, v)
        /\ ser_last' = "set_current"
        /\ UNCHANGED <<ser_log, ser_pure, ctxVars, runVars, optVars>>

SeriesCommit ==
    /\ Len(ser_log) < MaxCommits
    /\ ser' = commit(ser)
    /\ ser_log' = Append(ser_log, commit_value(ser))
    /\ ser_pure' = (ser_pure /\ ser.current # SENTINEL)
    /\ ser_last' = "commit"
    /\ UNCHANGED <<ctxVars, runVars, optVars>>

SeriesRollback ==
    /\ ser' = rollback(ser)
    /\ ser_last' = "rollback"
    /\ UNCHANGED <<ser_log, ser_pure, ctxVars, runVars, optVars>>

\* ============================================================ BarContext
\* Positions of the built-in series in _series_registry.
OPEN == 1
HIGH == 2
LOW == 3
CLOSE == 4
VOLUME == 5
TIME == 6
BuiltinNames == <<"open", "high", "low", "close", "volume", "time">>

\* BarContext.__init__: the registry holds the six built-in series.
ContextRegistryInit(max_bars_back) ==
    [i \in 1..6 |-> SeriesInit(max_bars_back, BuiltinNames[i])]

\* BarContext.register_series
register_series(registry, s) == Append(registry, s)

\* BarContext.create_series
create_series(registry, name, max_bars_back) ==
    register_series(registry, SeriesInit(max_bars_back, name))

\* BarContext.update: stages the bar's fields into the built-ins.
update(registry, bar) ==
    [registry EXCEPT
        ![OPEN] = set_current(@, bar.open),
        ![HIGH] = set_current(@, bar.high),
        ![LOW] = set_current(@, bar.low),
        ![CLOSE] = set_current(@, bar.close),
        ![VOLUME] = set_current(@, bar.volume),
        ![TIME] = set_current(@, bar.timestamp)]

\* Variant of commit_all that commits the built-in series only.
commit_all_builtins(registry) ==
    [i \in DOMAIN registry |-> IF i <= 6 THEN commit(registry[i]) ELSE registry[i]]

\* Variant of commit_all that commits nothing.
commit_all_nothing(registry) == registry

\* BarContext.commit_all (the series part)
commit_all(registry) ==
    [i \in DOMAIN registry |-> commit(registry[i])]

\* BarContext.rollback_all
rollback_all(registry) ==
    [i \in DOMAIN registry |-> rollback(registry[i])]

\* ------------------------------------------------------------------ bars
\* OHLCV shapes the feed is built from: (open, high, low, close).
RangeBar == [open |-> 100, high |-> 300, low |-> 100, close |-> 200]
FallingBar == [open |-> 300, high |-> 300, low |-> 100, close |-> 100]
LowBar == [open |-> 100, high |-> 100, low |-> 100, close |-> 100]
HighBar == [open |-> 300, high |-> 300, low |-> 300, close |-> 300]

\* The shapes a broker is handed directly.
AllBarShapes == {RangeBar, FallingBar, LowBar, HighBar}

\* The shapes of the bars of a feed.
BarShapes == {RangeBar, HighBar}

\* Timestamp of the i-th bar (0-based): strictly ascending.
BarTime(i) == 3600 * (i + 1)

MkBar(shape, i) ==
    [timestamp |-> BarTime(i), open |-> shape.open, high |-> shape.high,
     low |-> shape.low, close |-> shape.close, volume |-> 1000]

\* Feeds of n bars.  No order is pending when the first bar is processed and
\* no position is open when its equity point is recorded, so the feeds differ
\* in the bars after the first.
Feeds(n) ==
    { [i \in 1..n |-> MkBar(f[i], i - 1)] :
          f \in { g \in [1..n -> BarShapes] : g[1] = RangeBar } }

\* --------------------------------------- operations on a context by itself
InitContext ==
    /\ bar_state = "new"
    /\ ctx_bar_index = -1
    /\ series_registry = ContextRegistryInit(MaxBarsBack)
    /\ ctx_last = "init"

CtxCreateSeries ==
    /\ Len(series_registry) < 6 + MaxUserSeries
    /\ \E m \in IF Len(series_registry) = 6 THEN {1, MaxBarsBack} ELSE {1} :
           series_registry' = create_series(series_registry, "user", m)
    /\ ctx_last' = "create_series"
    /\ UNCHANGED <<bar_state, ctx_bar_index, serVars, runVars, optVars>>

CtxSetUser ==
    /\ \E i \in DOMAIN series_registry, v \in SeriesValues :
           /\ i > 6
           /\ series_registry' =
                  [series_registry EXCEPT ![i] = set_current(@, v)]
    /\ ctx_last' = "set_current"
    /\ UNCHANGED <<bar_state, ctx_bar_index, serVars, runVars, optVars>>

\* update is called with the bars in feed order.
CtxUpdate ==
    /\ ctx_bar_index + 1 < Len(bars)
    /\ series_registry' = update(series_registry, bars[ctx_bar_index + 2])
    /\ ctx_bar_index' = ctx_bar_index + 1
    /\ bar_state' = "new"
    /\ ctx_last' = "update"
    /\ UNCHANGED <<serVars, runVars, optVars>>

CtxCommitAll ==
    /\ series_registry' = commit_all(series_registry)
    /\ bar_state' = "confirmed"
    /\ ctx_last' = "commit_all"
    /\ UNCHANGED <<ctx_bar_index, serVars, runVars, optVars>>

CtxRollbackAll ==
    /\ series_registry' = rollback_all(series_registry)
    /\ ctx_last' = "rollback_all"
    /\ UNCHANGED <<bar_state, ctx_bar_index, serVars, runVars, optVars>>

\* ================================================= commission and slippage
ZeroCommission == [kind |-> "zero", arg |-> 0]
FixedCommission(amount) == [kind |-> "fixed", arg |-> amount]
PercentageCommission(rate_pct) == [kind |-> "percentage", arg |-> rate_pct]

ZeroSlippage == [kind |-> "zero", arg |-> 0]
FixedSlippage(points) == [kind |-> "fixed", arg |-> points]
PercentageSlippage(rate_pct) == [kind |-> "percentage", arg |-> rate_pct]

\* x * rate for a rate given in percent; exact for the values of the model.
TimesRate(x, rate_pct) == (x * rate_pct) \div 100

\* CommissionModel.calculate
commission_calculate(model, price, quantity) ==
    CASE model.kind = "zero" -> 0
      [] model.kind = "fixed" -> model.arg
      [] model.kind = "percentage" -> TimesRate(price * quantity, model.arg)

\* Variant of slippage_calculate that moves the price in the order's favour.
slippage_calculate_favourable(model, price, side) ==
    CASE model.kind = "zero" -> price
      [] model.kind = "fixed" ->
            IF side = "long" THEN price - model.arg ELSE price + model.arg
      [] model.kind = "percentage" ->
            IF side = "long" THEN price - TimesRate(price, model.arg)
            ELSE price + TimesRate(price, model.arg)

\* SlippageModel.calculate
slippage_calculate(model, price, side) ==
    CASE model.kind = "zero" -> price
      [] model.kind = "fixed" ->
            IF side = "long" THEN price + model.arg ELSE price - model.arg
      [] model.kind = "percentage" ->
            IF side = "long" THEN price + TimesRate(price, model.arg)
            ELSE price - TimesRate(price, model.arg)

\* (commission model, slippage model) pairs a run is configured with.
Configs ==
    { <<ZeroCommission, ZeroSlippage>>,
      <<PercentageCommission(10), FixedSlippage(10)>> }

Abs(x) == IF x < 0 THEN -x ELSE x
Max(a, b) == IF a >= b THEN a ELSE b
Min(a, b) == IF a <= b THEN a ELSE b

\* ======================================================== Order and broker
\* Order(...): a new order is PENDING and carries no fill data.
Order(id, action, side, order_type, quantity, limit_price, stop_price, tag) ==
    [id |-> id, action |-> action, side |-> side, order_type |-> order_type,
     quantity |-> quantity, limit_price |-> limit_price,
     stop_price |-> stop_price, status |-> "pending", tag |-> tag,
     created_bar |-> -1, created_at |-> None, filled_at |-> None,
     fill_price |-> None, commission |-> 0, slippage |-> 0]

\* Order.cancel
order_cancel(order) == [order EXCEPT !.status = "cancelled"]

IsExit(action) == action \in {"exit", "close"}

\* Variant of check_limit with strict comparisons.
check_limit_strict(order, bar) ==
    IF order.limit_price = None THEN None
    ELSE IF order.side = "long" /\ order.action = "entry"
         THEN (IF bar.low < order.limit_price THEN order.limit_price ELSE None)
    ELSE IF order.side = "long"
         THEN (IF bar.high > order.limit_price THEN order.limit_price ELSE None)
    ELSE IF order.action = "entry"
         THEN (IF bar.high > order.limit_price THEN order.limit_price ELSE None)
    ELSE (IF bar.low < order.limit_price THEN order.limit_price ELSE None)

\* SimulatedBroker._check_limit: the fill price, or None.
check_limit(order, bar) ==
    IF order.limit_price = None THEN None
    ELSE IF order.side = "long" \/ IsExit(order.action)
         THEN IF order.action = "entry" /\ order.side = "long"
                   THEN (IF bar.low <= order.limit_price
                         THEN order.limit_price ELSE None)
              ELSE IF IsExit(order.action) /\ order.side = "long"
                   THEN (IF bar.high >= order.limit_price
                         THEN order.limit_price ELSE None)
              ELSE IF order.action = "entry" /\ order.side = "short"
                   THEN (IF bar.high >= order.limit_price
                         THEN order.limit_price ELSE None)
              ELSE IF IsExit(order.action) /\ order.side = "short"
                   THEN (IF bar.low <= order.limit_price
                         THEN order.limit_price ELSE None)
              ELSE None
         ELSE IF order.side = "short"
              THEN (IF bar.high >= order.limit_price
                    THEN order.limit_price ELSE None)
              ELSE None

\* Variant of check_stop that fills at the stop price whatever the open.
check_stop_at_stop(order, bar) ==
    IF order.stop_price = None THEN None
    ELSE IF (order.side = "long" /\ order.action = "entry")
            \/ (order.side = "short" /\ IsExit(order.action))
         THEN (IF bar.high >= order.stop_price THEN order.stop_price ELSE None)
    ELSE (IF bar.low <= order.stop_price THEN order.stop_price ELSE None)

\* SimulatedBroker._check_stop: the base fill price, or None.
check_stop(order, bar) ==
    IF order.stop_price = None THEN None
    ELSE IF order.side = "long" /\ order.action = "entry"
         THEN (IF bar.high >= order.stop_price
               THEN Max(bar.open, order.stop_price) ELSE None)
    ELSE IF order.side = "short" /\ order.action = "entry"
         THEN (IF bar.low <= order.stop_price
               THEN Min(bar.open, order.stop_price) ELSE None)
    ELSE IF IsExit(order.action)
         THEN IF order.side = "long"
              THEN (IF bar.low <= order.stop_price
                    THEN Min(bar.open, order.stop_price) ELSE None)
              ELSE (IF bar.high >= order.stop_price
                    THEN Max(bar.open, order.stop_price) ELSE None)
    ELSE None

\* Variant of check_stop_limit that fills at the limit once the stop triggers.
check_stop_limit_stop_only(order, bar) ==
    LET stop_triggered == check_stop(order, bar) # None
    IN  IF stop_triggered /\ order.limit_price # None
        THEN order.limit_price ELSE None

\* SimulatedBroker._check_stop_limit
check_stop_limit(order, bar) ==
    LET stop_triggered == check_stop(order, bar) # None
    IN  IF stop_triggered /\ order.limit_price # None
        THEN check_limit(order, bar) ELSE None

\* Variant of try_fill whose MARKET orders take the bar's close as base price.
try_fill_market_at_close(order, bar, commission, slippage) ==
    LET base_price ==
            CASE order.order_type = "market" -> bar.close
              [] order.order_type = "limit" -> check_limit(order, bar)
              [] order.order_type = "stop" -> check_stop(order, bar)
              [] order.order_type = "stop_limit" -> check_stop_limit(order, bar)
        fill_side ==
            IF IsExit(order.action)
            THEN (IF order.side = "long" THEN "short" ELSE "long")
            ELSE order.side
        slipped == order.order_type \in {"market", "stop"}
        fill_price ==
            IF slipped THEN slippage_calculate(slippage, base_price, fill_side)
            ELSE base_price
        slippage_amount ==
            IF slipped THEN Abs(fill_price - base_price) ELSE 0
    IN  IF base_price = None THEN <<>>
        ELSE << [order_id |-> order.id, side |-> order.side,
                 price |-> fill_price, quantity |-> order.quantity,
                 commission |->
                     commission_calculate(commission, fill_price, order.quantity),
                 slippage |-> slippage_amount,
                 timestamp |-> bar.timestamp, tag |-> order.tag] >>

\* SimulatedBroker._try_fill: <<>> when the order does not fill on the bar,
\* else <<fill>>.
try_fill(order, bar, commission, slippage) ==
    LET base_price ==
            CASE order.order_type = "market" -> bar.open
              [] order.order_type = "limit" -> check_limit(order, bar)
              [] order.order_type = "stop" -> check_stop(order, bar)
              [] order.order_type = "stop_limit" -> check_stop_limit(order, bar)
        fill_side ==
            IF IsExit(order.action)
            THEN (IF order.side = "long" THEN "short" ELSE "long")
            ELSE order.side
        slipped == order.order_type \in {"market", "stop"}
        fill_price ==
            IF slipped THEN slippage_calculate(slippage, base_price, fill_side)
            ELSE base_price
        slippage_amount ==
            IF slipped THEN Abs(fill_price - base_price) ELSE 0
    IN  IF base_price = None THEN <<>>
        ELSE << [order_id |-> order.id, side |-> order.side,
                 price |-> fill_price, quantity |-> order.quantity,
                 commission |->
                     commission_calculate(commission, fill_price, order.quantity),
                 slippage |-> slippage_amount,
                 timestamp |-> bar.timestamp, tag |-> order.tag] >>

\* The assignments process_bar makes to an order that filled.
order_filled(order, fill, bar) ==
    [order EXCEPT !.status = "filled",
                  !.filled_at = bar.timestamp,
                  !.fill_price = fill.price,
                  !.commission = fill.commission,
                  !.slippage = fill.slippage]

\* Variant of process_bar that walks the pending list from its newest entry
\* to its oldest.
process_bar_newest_first(pending, ords, bar, commission, slippage) ==
    LET n == Len(pending)
        step[k \in 0..n] ==
            IF k = 0
            THEN [fills |-> <<>>, remaining |-> <<>>, orders |-> ords]
            ELSE LET prev == step[k - 1]
                     ref == pending[n + 1 - k]
                     fill == try_fill(prev.orders[ref], bar, commission, slippage)
                 IN  IF fill # <<>>
                     THEN [fills |-> Append(prev.fills, fill[1]),
                           remaining |-> prev.remaining,
                           orders |-> [prev.orders EXCEPT ![ref] =
                                          order_filled(@, fill[1], bar)]]
                     ELSE [fills |-> prev.fills,
                           remaining |-> Append(prev.remaining, ref),
                           orders |-> prev.orders]
    IN  step[n]

\* SimulatedBroker.process_bar over the pending list `pending` (order refs)
\* and the order objects `ords`: the fills, the new pending list and the
\* updated order objects.
process_bar(pending, ords, bar, commission, slippage) ==
    LET step[k \in 0..Len(pending)] ==
            IF k = 0
            THEN [fills |-> <<>>, remaining |-> <<>>, orders |-> ords]
            ELSE LET prev == step[k - 1]
                     ref == pending[k]
                     fill == try_fill(prev.orders[ref], bar, commission, slippage)
                 IN  IF fill # <<>>
                     THEN [fills |-> Append(prev.fills, fill[1]),
                           remaining |-> prev.remaining,
                           orders |-> [prev.orders EXCEPT ![ref] =
                                          order_filled(@, fill[1], bar)]]
                     ELSE [fills |-> prev.fills,
                           remaining |-> Append(prev.remaining, ref),
                           orders |-> prev.orders]
    IN  step[Len(pending)]

\* The tag argument None of cancel_all.
AnyTag == "*"

\* Variant of cancel_all that marks the orders and leaves them in the queue.
cancel_all_keep_queue(pending, ords, tag) ==
    LET step[k \in 0..Len(pending)] ==
            IF k = 0
            THEN [cancelled |-> 0, remaining |-> <<>>, orders |-> ords]
            ELSE LET prev == step[k - 1]
                     ref == pending[k]
                 IN  IF tag = AnyTag \/ prev.orders[ref].tag = tag
                     THEN [cancelled |-> prev.cancelled + 1,
                           remaining |-> Append(prev.remaining, ref),
                           orders |-> [prev.orders EXCEPT ![ref] = order_cancel(@)]]
                     ELSE [cancelled |-> prev.cancelled,
                           remaining |-> Append(prev.remaining, ref),
                           orders |-> prev.orders]
    IN  step[Len(pending)]

\* SimulatedBroker.cancel_all
cancel_all(pending, ords, tag) ==
    LET step[k \in 0..Len(pending)] ==
            IF k = 0
            THEN [cancelled |-> 0, remaining |-> <<>>, orders |-> ords]
            ELSE LET prev == step[k - 1]
                     ref == pending[k]
                 IN  IF tag = AnyTag \/ prev.orders[ref].tag = tag
                     THEN [cancelled |-> prev.cancelled + 1,
                           remaining |-> prev.remaining,
                           orders |-> [prev.orders EXCEPT ![ref] = order_cancel(@)]]
                     ELSE [cancelled |-> prev.cancelled,
                           remaining |-> Append(prev.remaining, ref),
                           orders |-> prev.orders]
    IN  step[Len(pending)]

\* ============================================================== Portfolio
InitialCapital == 10000

\* Portfolio.__init__; positions is the tag -> Position dict, kept as the
\* list of its values in insertion order (each Position carries its tag).
PortfolioInit(initial_capital) ==
    [initial_capital |-> initial_capital, cash |-> initial_capital,
     positions |-> <<>>, closed_positions |-> <<>>, equity_curve |-> <<>>,
     peak_equity |-> initial_capital, trade_results |-> <<>>]

\* tag in self._positions
has_position(pf, tag) == \E i \in DOMAIN pf.positions : pf.positions[i].tag = tag

PositionIndex(pf, tag) ==
    CHOOSE i \in DOMAIN pf.positions : pf.positions[i].tag = tag

\* self._positions[tag]
get_position(pf, tag) == pf.positions[PositionIndex(pf, tag)]

RemoveAt(seq, i) == SubSeq(seq, 1, i - 1) \o SubSeq(seq, i + 1, Len(seq))

\* Position.unrealized_pnl
unrealized_pnl(pos, current_price) ==
    IF pos.side = "long"
    THEN (current_price - pos.entry_price) * pos.quantity
    ELSE (pos.entry_price - current_price) * pos.quantity

\* Position.close: the Position object after the call.
position_close(pos, exit_price, exit_time, exit_bar, exit_tag, commission) ==
    [pos EXCEPT !.exit_price = exit_price, !.exit_time = exit_time,
                !.exit_bar = exit_bar, !.exit_tag = exit_tag,
                !.commission_exit = commission, !.status = "closed"]

\* Variant of position_pnl that leaves the commissions out.
position_pnl_gross(pos) ==
    IF pos.side = "long"
    THEN (pos.exit_price - pos.entry_price) * pos.quantity
    ELSE (pos.entry_price - pos.exit_price) * pos.quantity

\* Position.pnl of a closed position
position_pnl(pos) ==
    LET gross == IF pos.side = "long"
                 THEN (pos.exit_price - pos.entry_price) * pos.quantity
                 ELSE (pos.entry_price - pos.exit_price) * pos.quantity
    IN  gross - pos.commission_entry - pos.commission_exit

\* Portfolio._position_value
position_value(pf, current_price) ==
    LET total[k \in 0..Len(pf.positions)] ==
            IF k = 0 THEN 0
            ELSE LET pos == pf.positions[k]
                 IN  IF pos.side = "long"
                     THEN total[k - 1] + current_price * pos.quantity
                     ELSE total[k - 1] + pos.entry_price * pos.quantity
                                       + unrealized_pnl(pos, current_price)
    IN  total[Len(pf.positions)]

\* Portfolio.equity
equity(pf, current_price) == pf.cash + position_value(pf, current_price)

\* Variant of force_close that books the cash of one unit less than the
\* position holds.
force_close_less_one(pf, tag, price, timestamp, bar_idx, commission, exit_tag) ==
    LET i == PositionIndex(pf, tag)
        position == position_close(pf.positions[i], price, timestamp,
                                   bar_idx, exit_tag, commission)
        trade == [entry_time |-> position.entry_time, exit_time |-> timestamp,
                  side |-> position.side,
                  entry_price |-> position.entry_price, exit_price |-> price,
                  quantity |-> position.quantity,
                  pnl |-> position_pnl(position),
                  commission |-> position.commission_entry
                                 + position.commission_exit,
                  bars_held |-> position.exit_bar - position.entry_bar,
                  entry_tag |-> tag, exit_tag |-> exit_tag]
    IN  [pf EXCEPT
            !.positions = RemoveAt(@, i),
            !.cash = IF position.side = "long"
                     THEN @ + (price * (position.quantity - 1) - commission)
                     ELSE @ - (price * (position.quantity - 1) + commission),
            !.closed_positions = Append(@, position),
            !.trade_results = Append(@, trade)]

\* Portfolio._force_close
force_close(pf, tag, price, timestamp, bar_idx, commission, exit_tag) ==
    LET i == PositionIndex(pf, tag)
        position == position_close(pf.positions[i], price, timestamp,
                                   bar_idx, exit_tag, commission)
        trade == [entry_time |-> position.entry_time, exit_time |-> timestamp,
                  side |-> position.side,
                  entry_price |-> position.entry_price, exit_price |-> price,
                  quantity |-> position.quantity,
                  pnl |-> position_pnl(position),
                  commission |-> position.commission_entry
                                 + position.commission_exit,
                  bars_held |-> position.exit_bar - position.entry_bar,
                  entry_tag |-> tag, exit_tag |-> exit_tag]
    IN  [pf EXCEPT
            !.positions = RemoveAt(@, i),
            !.cash = IF position.side = "long"
                     THEN @ + (price * position.quantity - commission)
                     ELSE @ - (price * position.quantity + commission),
            !.closed_positions = Append(@, position),
            !.trade_results = Append(@, trade)]

\* Variant of open_position that ignores every entry for an occupied tag.
open_position_no_reversal(pf, fill, bar_idx, tag) ==
    LET cost == fill.price * fill.quantity
        position == [side |-> fill.side, entry_price |-> fill.price,
                     quantity |-> fill.quantity, entry_time |-> fill.timestamp,
                     entry_bar |-> bar_idx, tag |-> tag, status |-> "open",
                     exit_price |-> None, exit_time |-> None,
                     exit_bar |-> None, exit_tag |-> "",
                     commission_entry |-> fill.commission,
                     commission_exit |-> 0]
    IN  IF has_position(pf, tag) THEN pf
        ELSE [pf EXCEPT
                !.cash = IF fill.side = "long"
                         THEN @ - (cost + fill.commission)
                         ELSE @ + (cost - fill.commission),
                !.positions = Append(@, position)]

\* Portfolio._open_position
open_position(pf, fill, bar_idx, tag) ==
    LET same_side == has_position(pf, tag)
                     /\ get_position(pf, tag).side = fill.side
        pf1 == IF has_position(pf, tag)
               THEN force_close(pf, tag, fill.price, fill.timestamp, bar_idx,
                                fill.commission, "")
               ELSE pf
        cost == fill.price * fill.quantity
        position == [side |-> fill.side, entry_price |-> fill.price,
                     quantity |-> fill.quantity, entry_time |-> fill.timestamp,
                     entry_bar |-> bar_idx, tag |-> tag, status |-> "open",
                     exit_price |-> None, exit_time |-> None,
                     exit_bar |-> None, exit_tag |-> "",
                     commission_entry |-> fill.commission,
                     commission_exit |-> 0]
    IN  IF same_side THEN pf
        ELSE [pf1 EXCEPT
                !.cash = IF fill.side = "long"
                         THEN @ - (cost + fill.commission)
                         ELSE @ + (cost - fill.commission),
                !.positions = Append(@, position)]

\* Variant of close_position that charges the commission of a fill for a
\* vacant tag.
close_position_charging(pf, fill, bar_idx, tag) ==
    IF ~has_position(pf, tag) THEN [pf EXCEPT !.cash = @ - fill.commission]
    ELSE force_close(pf, tag, fill.price, fill.timestamp, bar_idx,
                     fill.commission, fill.tag)

\* Portfolio._close_position
close_position(pf, fill, bar_idx, tag) ==
    IF ~has_position(pf, tag) THEN pf
    ELSE force_close(pf, tag, fill.price, fill.timestamp, bar_idx,
                     fill.commission, fill.tag)

\* Portfolio.process_fill
process_fill(pf, fill, action, bar_idx) ==
    LET tag == IF fill.tag = "" THEN "default" ELSE fill.tag
    IN  CASE action = "entry" -> open_position(pf, fill, bar_idx, tag)
          [] action = "exit" -> close_position(pf, fill, bar_idx, tag)
          [] action = "close" -> close_position(pf, fill, bar_idx, tag)

\* Variant of record_equity that records a point only while a position is
\* open.
record_equity_when_invested(pf, bar, bar_idx) ==
    LET pos_value == position_value(pf, bar.close)
        total_equity == pf.cash + pos_value
        peak == IF total_equity > pf.peak_equity THEN total_equity
                ELSE pf.peak_equity
        drawdown == IF peak > 0 THEN <<peak - total_equity, peak>>
                    ELSE <<0, 1>>
        point == [bar_index |-> bar_idx, timestamp |-> bar.timestamp,
                  equity |-> total_equity, cash |-> pf.cash,
                  position_value |-> pos_value, drawdown |-> drawdown]
    IN  IF pf.positions = <<>> THEN pf
        ELSE [pf EXCEPT !.peak_equity = peak, !.equity_curve = Append(@, point)]

\* Variant of record_equity that measures the drawdown against the peak
\* before the new equity is taken into it.
record_equity_stale_peak(pf, bar, bar_idx) ==
    LET pos_value == position_value(pf, bar.close)
        total_equity == pf.cash + pos_value
        peak == IF total_equity > pf.peak_equity THEN total_equity
                ELSE pf.peak_equity
        drawdown == IF pf.peak_equity > 0
                    THEN <<pf.peak_equity - total_equity, pf.peak_equity>>
                    ELSE <<0, 1>>
        point == [bar_index |-> bar_idx, timestamp |-> bar.timestamp,
                  equity |-> total_equity, cash |-> pf.cash,
                  position_value |-> pos_value, drawdown |-> drawdown]
    IN  [pf EXCEPT !.peak_equity = peak, !.equity_curve = Append(@, point)]

\* Portfolio.record_equity; the drawdown quotient is kept as the pair
\* (numerator, denominator) of the division the source performs.
record_equity(pf, bar, bar_idx) ==
    LET pos_value == position_value(pf, bar.close)
        total_equity == pf.cash + pos_value
        peak == IF total_equity > pf.peak_equity THEN total_equity
                ELSE pf.peak_equity
        drawdown == IF peak > 0 THEN <<peak - total_equity, peak>>
                    ELSE <<0, 1>>
        point == [bar_index |-> bar_idx, timestamp |-> bar.timestamp,
                  equity |-> total_equity, cash |-> pf.cash,
                  position_value |-> pos_value, drawdown |-> drawdown]
    IN  [pf EXCEPT !.peak_equity = peak, !.equity_curve = Append(@, point)]

\* Variant of close_all_positions that closes the first open position only.
close_all_positions_first(pf, price, timestamp, bar_idx) ==
    IF pf.positions = <<>> THEN pf
    ELSE force_close(pf, pf.positions[1].tag, price, timestamp, bar_idx,
                     0, "backtest_end")

\* Portfolio.close_all_positions: force-closes in dict order.
RECURSIVE close_all_positions(_, _, _, _)
close_all_positions(pf, price, timestamp, bar_idx) ==
    IF pf.positions = <<>> THEN pf
    ELSE close_all_positions(
             force_close(pf, pf.positions[1].tag, price, timestamp, bar_idx,
                         0, "backtest_end"),
             price, timestamp, bar_idx)

\* ===================================================== EventLoop, Strategy
Tags == {"a", "b"}
Sides == {"long", "short"}
Actions == {"entry", "exit", "close"}

\* (limit, stop) arguments of the order calls of a strategy in a run: market,
\* limit and stop orders.
RunPriceArgs == { <<None, None>>, <<200, None>>, <<None, 200>> }

\* Arguments of the entry calls a strategy makes in a run; qty is explicit.
\* Tag "a" takes every side and order type, tag "b" a LONG market entry.
EntryCalls ==
    { [tag |-> "a", side |-> sd, qty |-> 2, limit |-> p[1], stop |-> p[2]] :
          sd \in Sides, p \in RunPriceArgs }
    \cup { [tag |-> "b", side |-> "long", qty |-> 1, limit |-> None,
            stop |-> None] }

\* Arguments of the exit calls a strategy makes in a run (qty omitted).
ExitCalls ==
    { [tag |-> "a", qty |-> None, limit |-> p[1], stop |-> p[2]] :
          p \in RunPriceArgs }

\* Tags of the close_position calls a strategy makes in a run.
CloseCalls == {"a"}

\* uuid4().hex[:12] of the k-th Order of a run: a stream of distinct tokens.
UuidStreams ==
    { [k \in 1..MaxOrders |-> 100 + MaxOrders + 1 - k] }

EmptyMap == [x \in {} |-> "entry"]
MapSet(m, k, v) == [x \in DOMAIN m \cup {k} |-> IF x = k THEN v ELSE m[x]]
MapDel(m, k) == [x \in DOMAIN m \ {k} |-> m[x]]

\* The bar the loop is processing.
CurBar == bars[bar_index + 1]

\* order type chosen by Strategy.entry / Strategy.exit from limit and stop
order_type_of(limit, stop) ==
    IF limit # None /\ stop # None THEN "stop_limit"
    ELSE IF limit # None THEN "limit"
    ELSE IF stop # None THEN "stop"
    ELSE "market"

\* EventLoop._process_bar, step 3: the loop over the fills.  Pops the action
\* of each fill (ENTRY when the id is unknown) and hands it to the portfolio.
apply_fills(pf, amap, fills, bar_idx) ==
    LET step[k \in 0..Len(fills)] ==
            IF k = 0 THEN [portfolio |-> pf, action_map |-> amap, log |-> <<>>]
            ELSE LET prev == step[k - 1]
                     fill == fills[k]
                     action == IF fill.order_id \in DOMAIN prev.action_map
                               THEN prev.action_map[fill.order_id]
                               ELSE "entry"
                 IN  [portfolio |-> process_fill(prev.portfolio, fill, action, bar_idx),
                      action_map |-> MapDel(prev.action_map, fill.order_id),
                      log |-> Append(prev.log, <<fill.order_id, action>>)]
    IN  step[Len(fills)]

\* Variant of submit_queued that lets the broker match the orders against
\* the bar they were created on as soon as they are submitted.
submit_queued_matching(queue, ords, pending, amap, bar_idx, bar) ==
    LET step[k \in 0..Len(queue)] ==
            IF k = 0 THEN [orders |-> ords, pending |-> pending, action_map |-> amap]
            ELSE LET prev == step[k - 1]
                     ref == queue[k][1]
                     action == queue[k][2]
                 IN  [orders |-> [prev.orders EXCEPT ![ref] =
                                     [@ EXCEPT !.created_bar = bar_idx,
                                               !.created_at = bar.timestamp]],
                      pending |-> Append(prev.pending, ref),
                      action_map |-> MapSet(prev.action_map, prev.orders[ref].id, action)]
        s == step[Len(queue)]
        r == process_bar(s.pending, s.orders, bar, ZeroCommission, ZeroSlippage)
    IN  [orders |-> r.orders, pending |-> r.remaining, action_map |-> s.action_map]

\* EventLoop._process_bar, step 5: the loop over the queued orders.
submit_queued(queue, ords, pending, amap, bar_idx, bar) ==
    LET step[k \in 0..Len(queue)] ==
            IF k = 0 THEN [orders |-> ords, pending |-> pending, action_map |-> amap]
            ELSE LET prev == step[k - 1]
                     ref == queue[k][1]
                     action == queue[k][2]
                 IN  [orders |-> [prev.orders EXCEPT ![ref] =
                                     [@ EXCEPT !.created_bar = bar_idx,
                                               !.created_at = bar.timestamp]],
                      pending |-> Append(prev.pending, ref),
                      action_map |-> MapSet(prev.action_map, prev.orders[ref].id, action)]
    IN  step[Len(queue)]

\* EventLoop.__init__, SimulatedBroker.__init__, Portfolio.__init__ and the
\* start of run, for a feed, a configuration and a uuid stream of the sets.
InitRunWith(feeds, configs, streams) ==
    /\ bars \in feeds
    /\ \E cfg \in configs :
           /\ commission_model = cfg[1]
           /\ slippage_model = cfg[2]
    /\ uuid_stream \in streams
    /\ pc = "bar"
    /\ bar_index = 0
    /\ order_queue = <<>>
    /\ action_map = EmptyMap
    /\ orders = <<>>
    /\ pending_orders = <<>>
    /\ portfolio = PortfolioInit(InitialCapital)
    /\ enq_bar = <<>>
    /\ match_log = {}
    /\ last_fills = <<>>
    /\ applied_log = <<>>
    /\ cancel_ret = <<>>
    /\ api_call = <<>>
    /\ OptIdle
    /\ plan = <<>>
    /\ result1 = <<>>

\* A call of the strategy, as the method and its arguments.
Call(op, tag, side, qty, limit, stop) ==
    [op |-> op, tag |-> tag, side |-> side, qty |-> qty,
     limit |-> limit, stop |-> stop]

\* The strategy decides to make `call` on this bar.  A strategy is a
\* function of what it has seen: the first of two runs fixes it (the plan),
\* the second run follows it.
Decide(call) ==
    /\ run_no = 2 => (plan # <<>> /\ Head(plan) = <<bar_index, call>>)
    /\ plan' = CASE run_no = 1 -> Append(plan, <<bar_index, call>>)
                 [] run_no = 2 -> Tail(plan)
                 [] OTHER -> plan
    /\ UNCHANGED <<run_no, result1>>

\* on_bar returns: the strategy has no further call to make on this bar.
DecideReturn ==
    run_no = 2 => (IF plan = <<>> THEN TRUE ELSE Head(plan)[1] # bar_index)

\* _process_bar, steps 1 to 3: commit the previous bar, stage this bar, match
\* the pending orders against it and apply the fills; then on_bar is entered.
ProcessBarBegin ==
    /\ pc = "bar"
    /\ LET committed == IF bar_index > 0 THEN commit_all(series_registry)
                        ELSE series_registry
           r == process_bar(pending_orders, orders, CurBar,
                            commission_model, slippage_model)
           a == apply_fills(portfolio, action_map, r.fills, bar_index)
       IN  /\ series_registry' = update(committed, CurBar)
           /\ bar_state' = "new"
           /\ ctx_bar_index' = bar_index
           /\ ctx_last' = "update"
           /\ orders' = r.orders
           /\ pending_orders' = r.remaining
           /\ portfolio' = a.portfolio
           /\ action_map' = a.action_map
           /\ match_log' = match_log \cup
                  { <<pending_orders[k], bar_index>> : k \in DOMAIN pending_orders }
           /\ last_fills' = r.fills
           /\ applied_log' = applied_log \o a.log
    /\ pc' = "on_bar"
    /\ UNCHANGED <<serVars, inputVars, bar_index, order_queue, enq_bar,
                   cancel_ret, api_call, detVars, optVars>>

\* EventLoop.submit_order, called by the strategy's order methods with a new
\* Order object.
SubmitOrder(order, action) ==
    /\ orders' = Append(orders, order)
    /\ order_queue' = Append(order_queue, <<Len(orders) + 1, action>>)
    /\ enq_bar' = Append(enq_bar, ctx_bar_index)
    /\ UNCHANGED <<serVars, ctxVars, inputVars, pc, bar_index, action_map,
                   pending_orders, portfolio, match_log, last_fills, applied_log,
                   cancel_ret, api_call, optVars>>

NextUuid == uuid_stream[Len(orders) + 1]

\* Strategy.entry with an explicit qty, called from on_bar.
StrategyEntry ==
    /\ pc = "on_bar"
    /\ Len(orders) < MaxOrders
    /\ \E c \in EntryCalls :
           /\ Decide(Call("entry", c.tag, c.side, c.qty, c.limit, c.stop))
           /\ SubmitOrder(Order(NextUuid, "entry", c.side,
                                order_type_of(c.limit, c.stop),
                                c.qty, c.limit, c.stop, c.tag), "entry")

\* Strategy.exit, called from on_bar while the tag holds a position (the
\* call returns at once when it holds none).
StrategyExit ==
    /\ pc = "on_bar"
    /\ Len(orders) < MaxOrders
    /\ \E c \in ExitCalls :
           /\ has_position(portfolio, c.tag)
           /\ Decide(Call("exit", c.tag, "", c.qty, c.limit, c.stop))
           /\ LET position == get_position(portfolio, c.tag)
              IN  SubmitOrder(Order(NextUuid, "exit", position.side,
                                    order_type_of(c.limit, c.stop),
                                    IF c.qty = None THEN position.quantity
                                    ELSE c.qty,
                                    c.limit, c.stop, c.tag), "exit")

\* Strategy.close_position, called from on_bar while the tag holds a position.
StrategyClosePosition ==
    /\ pc = "on_bar"
    /\ Len(orders) < MaxOrders
    /\ \E tag \in CloseCalls :
           /\ has_position(portfolio, tag)
           /\ Decide(Call("close_position", tag, "", None, None, None))
           /\ LET position == get_position(portfolio, tag)
              IN  SubmitOrder(Order(NextUuid, "close", position.side, "market",
                                    position.quantity, None, None, tag), "close")

\* SimulatedBroker.cancel_all, called from on_bar through loop.broker.
BrokerCancelAll ==
    /\ pc = "on_bar"
    /\ pending_orders # <<>>
    /\ \E tag \in Tags \cup {AnyTag} :
           LET r == cancel_all(pending_orders, orders, tag)
           IN  /\ r.cancelled > 0
               /\ Decide(Call("cancel_all", tag, "", None, None, None))
               /\ orders' = r.orders
               /\ pending_orders' = r.remaining
    /\ UNCHANGED <<serVars, ctxVars, inputVars, loopVars, portfolio, histVars, optVars>>

\* _process_bar, steps 5 and 6, after on_bar returned: hand the queued orders
\* to the broker, record equity; the enumerate loop moves to the next bar.
ProcessBarEnd ==
    /\ pc = "on_bar"
    /\ DecideReturn
    /\ LET r == submit_queued(order_queue, orders, pending_orders, action_map,
                              bar_index, CurBar)
       IN  /\ orders' = r.orders
           /\ pending_orders' = r.pending
           /\ action_map' = r.action_map
    /\ order_queue' = <<>>
    /\ portfolio' = record_equity(portfolio, CurBar, bar_index)
    /\ bar_index' = bar_index + 1
    /\ pc' = IF bar_index + 1 < Len(bars) THEN "bar" ELSE "end"
    /\ UNCHANGED <<serVars, ctxVars, inputVars, histVars, detVars, optVars>>

\* EventLoop.run after the loop: close all positions at the last bar's close.
RunEnd ==
    /\ pc = "end"
    /\ LET last_bar == bars[Len(bars)]
       IN  portfolio' = close_all_positions(portfolio, last_bar.close,
                                            last_bar.timestamp, Len(bars) - 1)
    /\ pc' = "done"
    /\ UNCHANGED <<serVars, ctxVars, inputVars, bar_index, order_queue,
                   action_map, brokerVars, histVars, detVars, optVars>>

InitRun ==
    /\ InitRunWith(Feeds(NumBars), Configs, UuidStreams)
    /\ run_no = 0

\* One feed and configuration, for the specifications of a single component.
FixedFeed ==
    [i \in 1..NumBars |->
        MkBar(CASE i % 3 = 1 -> RangeBar [] i % 3 = 2 -> LowBar [] OTHER -> HighBar,
              i - 1)]

InitRunFixed ==
    /\ InitRunWith({FixedFeed}, {<<ZeroCommission, ZeroSlippage>>}, UuidStreams)
    /\ run_no = 0

Init ==
    /\ InitSeries
    /\ InitContext
    /\ InitRun

Next ==
    \/ ProcessBarBegin
    \/ StrategyEntry
    \/ StrategyExit
    \/ StrategyClosePosition
    \/ BrokerCancelAll
    \/ ProcessBarEnd
    \/ RunEnd

Spec == Init /\ [][Next]_vars

\* _process_bar, step 4, when strategy.on_bar raises, after any of the calls
\* it made: rollback_all, then the exception leaves _process_bar and run.
\* Steps 5 and 6 and the rest of run are not executed; the order queue keeps
\* what on_bar enqueued.
OnBarRaises ==
    /\ pc = "on_bar"
    /\ series_registry' = rollback_all(series_registry)
    /\ ctx_last' = "rollback_all"
    /\ pc' = "raised"
    /\ UNCHANGED <<serVars, bar_state, ctx_bar_index, inputVars, bar_index,
                   order_queue, action_map, brokerVars, portfolio, histVars,
                   detVars, optVars>>

\* EventLoop.run with a strategy whose on_bar may raise.
NextRaise ==
    \/ Next
    \/ OnBarRaises

SpecRaise == Init /\ [][NextRaise]_vars

\* A stand-alone Series under any sequence of its operations.
InitSeriesOnly ==
    /\ InitSeries
    /\ InitContext
    /\ InitRunFixed

NextSeries ==
    \/ SeriesSetCurrent
    \/ SeriesCommit
    \/ SeriesRollback

SpecSeries == InitSeriesOnly /\ [][NextSeries]_vars

\* A BarContext under any sequence of its operations.
InitContextOnly ==
    /\ InitSeries
    /\ InitContext
    /\ InitRunFixed

NextContext ==
    \/ CtxCreateSeries
    \/ CtxSetUser
    \/ CtxUpdate
    \/ CtxCommitAll
    \/ CtxRollbackAll

SpecContext == InitContextOnly /\ [][NextContext]_vars

\* ------------------------------------------- BacktestRunner, repeated runs
\* The strategy instance of a run: its class name and parameters, and the
\* symbol and timeframe of the feed.
StrategyName == "S"
StrategyParameters == <<>>
FeedSymbol == "TEST"
FeedTimeframe == "1h"

\* BacktestRunner._compute_hash: SHA-256 of the joined components, kept as
\* the tuple of the components it joins.
compute_hash(name, parameters, symbol, timeframe, initial_capital, num_bars) ==
    <<name, parameters, symbol, timeframe, initial_capital, num_bars>>

\* The BacktestResult that BacktestRunner.run builds once loop.run returned.
BacktestResult ==
    [run_hash |-> compute_hash(StrategyName, StrategyParameters, FeedSymbol,
                               FeedTimeframe, InitialCapital, Len(bars)),
     final_equity |-> equity(portfolio, bars[Len(bars)].close),
     trades |-> portfolio.trade_results,
     equity_curve |-> portfolio.equity_curve,
     total_bars |-> Len(bars)]

\* uuid4 tokens of the second run: others than the first run's, in another
\* order.
UuidStreams2 ==
    { [k \in 1..MaxOrders |-> 200 + k] }

\* BacktestRunner.run called again with the same feed and config and a new
\* instance of the same strategy class: the result of the run that ended is
\* kept by the caller, and a new EventLoop (BarContext, SimulatedBroker and
\* the Portfolio `pf`) runs the strategy, under the commission and slippage
\* models of `cfg`.
RunAgainUnder(pf, cfg) ==
    /\ pc = "done"
    /\ run_no = 1
    /\ result1' = BacktestResult
    /\ run_no' = 2
    /\ uuid_stream' \in UuidStreams2
    /\ bar_state' = "new"
    /\ ctx_bar_index' = -1
    /\ series_registry' = ContextRegistryInit(MaxBarsBack)
    /\ ctx_last' = "init"
    /\ pc' = "bar"
    /\ bar_index' = 0
    /\ order_queue' = <<>>
    /\ action_map' = EmptyMap
    /\ orders' = <<>>
    /\ pending_orders' = <<>>
    /\ portfolio' = pf
    /\ enq_bar' = <<>>
    /\ match_log' = {}
    /\ last_fills' = <<>>
    /\ applied_log' = <<>>
    /\ commission_model' = cfg[1]
    /\ slippage_model' = cfg[2]
    /\ UNCHANGED <<serVars, bars, plan, cancel_ret, api_call, optVars>>

\* The same with the BacktestConfig of the run that ended.
RunAgainWith(pf) == RunAgainUnder(pf, <<commission_model, slippage_model>>)

\* Variant of RunnerRunAgain in which the second run gets the Portfolio
\* object of the first.
RunnerRunAgain_shared_portfolio == RunAgainWith(portfolio)

RunnerRunAgain == RunAgainWith(PortfolioInit(InitialCapital))

\* The feed and configuration of the repeated runs.
DetConfig == <<PercentageCommission(10), FixedSlippage(10)>>

InitDet ==
    /\ InitSeries
    /\ InitContext
    /\ InitRunWith({FixedFeed}, {DetConfig}, UuidStreams)
    /\ run_no = 1

NextDet ==
    \/ ProcessBarBegin
    \/ StrategyEntry
    \/ StrategyExit
    \/ StrategyClosePosition
    \/ BrokerCancelAll
    \/ ProcessBarEnd
    \/ RunEnd
    \/ RunnerRunAgain

SpecDet == InitDet /\ [][NextDet]_vars

\* BacktestRunner(feed, config).run(strategy) of another runner: the same
\* feed, the same initial capital, a new instance of the same strategy
\* class with the same parameters, and any of the configurations.
RunnerRunOther ==
    \E cfg \in Configs : RunAgainUnder(PortfolioInit(InitialCapital), cfg)

NextHash ==
    \/ ProcessBarBegin
    \/ StrategyEntry
    \/ StrategyExit
    \/ StrategyClosePosition
    \/ BrokerCancelAll
    \/ ProcessBarEnd
    \/ RunEnd
    \/ RunnerRunOther

\* Two runs of two runners that differ in the BacktestConfig only.
SpecHash == InitDet /\ [][NextHash]_vars

\* ------------------------------------------------ SimulatedBroker, alone
\* The Order objects a caller constructs first, with id `id`: every LIMIT
\* and STOP combination of action and side, and MARKET and STOP_LIMIT orders.
BrokerOrders(id) ==
    { Order(id, a, sd, "limit", 1, p, None, "a") :
          a \in Actions, sd \in Sides, p \in {100, 200} }
    \cup { Order(id, a, sd, "stop", 1, None, 200, "a") :
               a \in Actions, sd \in Sides }
    \cup { Order(id, a, "long", "stop_limit", 1, 200, 200, "a") :
               a \in {"entry", "exit"} }
    \cup { Order(id, "entry", "long", "market", 1, None, None, "a"),
           Order(id, "exit", "short", "market", 1, None, None, "a") }

\* The Order objects a caller constructs after the first.
BrokerMoreOrders(id) ==
    { Order(id, "entry", "long", "market", 1, None, None, "b"),
      Order(id, "exit", "short", "limit", 1, 200, None, "a") }

\* The configuration of the stand-alone broker.
BrokerConfig == <<PercentageCommission(10), FixedSlippage(10)>>

InitBroker ==
    /\ InitSeries
    /\ InitContext
    /\ bars = <<>>
    /\ commission_model = BrokerConfig[1]
    /\ slippage_model = BrokerConfig[2]
    /\ uuid_stream \in UuidStreams
    /\ pc = "broker"
    /\ bar_index = 0
    /\ order_queue = <<>>
    /\ action_map = EmptyMap
    /\ orders = <<>>
    /\ pending_orders = <<>>
    /\ portfolio = PortfolioInit(InitialCapital)
    /\ enq_bar = <<>>
    /\ match_log = {}
    /\ last_fills = <<>>
    /\ applied_log = <<>>
    /\ cancel_ret = <<>>
    /\ api_call = <<>>
    /\ OptIdle
    /\ run_no = 0
    /\ plan = <<>>
    /\ result1 = <<>>

\* SimulatedBroker.submit_order with a newly constructed Order.
BrkSubmitOrder ==
    /\ pc = "broker"
    /\ Len(orders) < MaxOrders
    /\ \E order \in IF orders = <<>> THEN BrokerOrders(NextUuid)
                    ELSE BrokerMoreOrders(NextUuid) :
           /\ orders' = Append(orders, order)
           /\ pending_orders' = Append(pending_orders, Len(orders) + 1)
    /\ enq_bar' = Append(enq_bar, bar_index)
    /\ UNCHANGED <<serVars, ctxVars, inputVars, loopVars, portfolio,
                   match_log, last_fills, applied_log,
                   cancel_ret, api_call, detVars, optVars>>

\* SimulatedBroker.process_bar with the next bar; `bars` holds that bar.
BrkProcessBar ==
    /\ pc = "broker"
    /\ bar_index < NumBars
    /\ \E shape \in AllBarShapes :
           LET bar == MkBar(shape, bar_index)
               r == process_bar(pending_orders, orders, bar,
                                commission_model, slippage_model)
           IN  /\ bars' = <<bar>>
               /\ orders' = r.orders
               /\ pending_orders' = r.remaining
               /\ last_fills' = r.fills
    /\ bar_index' = bar_index + 1
    /\ UNCHANGED <<serVars, ctxVars, commission_model, slippage_model,
                   uuid_stream, pc, order_queue, action_map, portfolio,
                   enq_bar, match_log, applied_log,
                   cancel_ret, api_call, detVars, optVars>>

\* SimulatedBroker.cancel_all
BrkCancelAll ==
    /\ pc = "broker"
    /\ \E tag \in Tags \cup {AnyTag} :
           LET r == cancel_all(pending_orders, orders, tag)
           IN  /\ r.cancelled > 0
               /\ orders' = r.orders
               /\ pending_orders' = r.remaining
    /\ UNCHANGED <<serVars, ctxVars, inputVars, loopVars, portfolio, histVars,
                   detVars, optVars>>

\* Order.reject: the Order object after the call.
order_reject(order) == [order EXCEPT !.status = "rejected"]

\* Order.cancel called on a PENDING Order object by its holder (the caller
\* that constructed it, or a reader of SimulatedBroker.pending_orders).
OrderCancel ==
    /\ pc = "broker"
    /\ \E ref \in DOMAIN orders :
           /\ orders[ref].status = "pending"
           /\ orders' = [orders EXCEPT ![ref] = order_cancel(@)]
    /\ UNCHANGED <<serVars, ctxVars, inputVars, loopVars, pending_orders,
                   portfolio, histVars, detVars, optVars>>

\* Order.reject called on a PENDING Order object by its holder.
OrderReject ==
    /\ pc = "broker"
    /\ \E ref \in DOMAIN orders :
           /\ orders[ref].status = "pending"
           /\ orders' = [orders EXCEPT ![ref] = order_reject(@)]
    /\ UNCHANGED <<serVars, ctxVars, inputVars, loopVars, pending_orders,
                   portfolio, histVars, detVars, optVars>>

NextBroker ==
    \/ BrkSubmitOrder
    \/ BrkProcessBar
    \/ BrkCancelAll
    \/ OrderCancel
    \/ OrderReject

SpecBroker == InitBroker /\ [][NextBroker]_vars

\* ------------------------------- SimulatedBroker matching one order per bar
\* Prices an order is given, on the grid of the bar prices.
MatchPrices == {100, 200, 300}

\* Every Order the constructor accepts for one tag and quantity: each action,
\* side and order type, with the prices its type uses.
MatchOrders(id) ==
    UNION { { Order(id, a, s, "market", 1, None, None, "a") }
            \cup { Order(id, a, s, "limit", 1, p, None, "a") : p \in MatchPrices }
            \cup { Order(id, a, s, "stop", 1, None, p, "a") : p \in MatchPrices }
            \cup UNION { { Order(id, a, s, "stop_limit", 1, l, p, "a")
                           : l \in MatchPrices } : p \in MatchPrices }
            : <<a, s>> \in Actions \X Sides }

\* One configuration per commission model and per slippage model.
MatchConfigs ==
    { <<ZeroCommission, ZeroSlippage>>,
      <<PercentageCommission(10), FixedSlippage(10)>>,
      <<FixedCommission(1), PercentageSlippage(10)>> }

\* SimulatedBroker.__init__ with each pair of models.
InitMatch ==
    /\ InitSeries
    /\ InitContext
    /\ bars = <<>>
    /\ \E c \in MatchConfigs :
           /\ commission_model = c[1]
           /\ slippage_model = c[2]
    /\ uuid_stream \in UuidStreams
    /\ pc = "match"
    /\ bar_index = 0
    /\ order_queue = <<>>
    /\ action_map = EmptyMap
    /\ orders = <<>>
    /\ pending_orders = <<>>
    /\ portfolio = PortfolioInit(InitialCapital)
    /\ enq_bar = <<>>
    /\ match_log = {}
    /\ last_fills = <<>>
    /\ applied_log = <<>>
    /\ cancel_ret = <<>>
    /\ api_call = <<>>
    /\ OptIdle
    /\ run_no = 0
    /\ plan = <<>>
    /\ result1 = <<>>

\* SimulatedBroker.submit_order, once, with any Order.
MatchSubmitOrder ==
    /\ pc = "match"
    /\ orders = <<>>
    /\ \E order \in MatchOrders(NextUuid) :
           /\ orders' = <<order>>
           /\ pending_orders' = <<1>>
    /\ enq_bar' = Append(enq_bar, bar_index)
    /\ UNCHANGED <<serVars, ctxVars, inputVars, loopVars, portfolio,
                   match_log, last_fills, applied_log,
                   cancel_ret, api_call, detVars, optVars>>

\* SimulatedBroker.process_bar with the next bar; `bars` holds that bar.
MatchProcessBar ==
    /\ pc = "match"
    /\ bar_index < NumBars
    /\ \E shape \in AllBarShapes :
           LET bar == MkBar(shape, bar_index)
               r == process_bar(pending_orders, orders, bar,
                                commission_model, slippage_model)
           IN  /\ bars' = <<bar>>
               /\ orders' = r.orders
               /\ pending_orders' = r.remaining
               /\ last_fills' = r.fills
    /\ bar_index' = bar_index + 1
    /\ UNCHANGED <<serVars, ctxVars, commission_model, slippage_model,
                   uuid_stream, pc, order_queue, action_map, portfolio,
                   enq_bar, match_log, applied_log,
                   cancel_ret, api_call, detVars, optVars>>

NextMatch ==
    \/ MatchSubmitOrder
    \/ MatchProcessBar

SpecMatch == InitMatch /\ [][NextMatch]_vars

\* ----------------------------------------------------- Portfolio, alone
\* Fill: the record handed to Portfolio.process_fill.
Fill(order_id, side, price, quantity, commission, slippage, timestamp, tag) ==
    [order_id |-> order_id, side |-> side, price |-> price,
     quantity |-> quantity, commission |-> commission, slippage |-> slippage,
     timestamp |-> timestamp, tag |-> tag]

\* Fills of the i-th call: each side at two prices, with a small and a large
\* (quantity, commission), for tag "a"; one fill with the default tag "".
PortfolioFills(i) ==
    { Fill(100 + i, s, p, qc[1], qc[2], 0, BarTime(i), "a")
        : <<s, p, qc>> \in Sides \X {100, 200} \X {<<1, 0>>, <<2, 10>>} }
    \cup { Fill(100 + i, "long", 100, 1, 0, 0, BarTime(i), "") }

\* Portfolio.__init__
InitPortfolio ==
    /\ InitSeries
    /\ InitContext
    /\ bars = <<>>
    /\ commission_model = ZeroCommission
    /\ slippage_model = ZeroSlippage
    /\ uuid_stream \in UuidStreams
    /\ pc = "portfolio"
    /\ bar_index = 0
    /\ order_queue = <<>>
    /\ action_map = EmptyMap
    /\ orders = <<>>
    /\ pending_orders = <<>>
    /\ portfolio = PortfolioInit(InitialCapital)
    /\ enq_bar = <<>>
    /\ match_log = {}
    /\ last_fills = <<>>
    /\ applied_log = <<>>
    /\ cancel_ret = <<>>
    /\ api_call = <<>>
    /\ OptIdle
    /\ run_no = 0
    /\ plan = <<>>
    /\ result1 = <<>>

\* Portfolio.process_fill, one call per bar; last_fills and applied_log hold
\* the fill and the action of the latest call.
PfProcessFill ==
    /\ pc = "portfolio"
    /\ bar_index < NumBars
    /\ \E fill \in PortfolioFills(bar_index), action \in Actions :
           /\ portfolio' = process_fill(portfolio, fill, action, bar_index)
           /\ last_fills' = <<fill>>
           /\ applied_log' = << <<fill.order_id, action>> >>
    /\ bar_index' = bar_index + 1
    /\ UNCHANGED <<serVars, ctxVars, inputVars, pc, order_queue, action_map,
                   orders, pending_orders, enq_bar, match_log, cancel_ret,
                   api_call,
                   detVars, optVars>>

\* Portfolio.record_equity with the bar of the latest fill, at most once per
\* bar; the bars are those of the fixed feed.
PfRecordEquity ==
    /\ pc = "portfolio"
    /\ bar_index > 0
    /\ Len(portfolio.equity_curve) < bar_index
    /\ portfolio' = record_equity(portfolio, FixedFeed[bar_index], bar_index - 1)
    /\ UNCHANGED <<serVars, ctxVars, inputVars, loopVars, brokerVars, histVars,
                   detVars, optVars>>

NextPortfolio ==
    \/ PfProcessFill
    \/ PfRecordEquity

SpecPortfolio == InitPortfolio /\ [][NextPortfolio]_vars

\* --------------------------------------- SimulatedBroker, cancelling orders
\* Orders of two tags: one that fills on every bar and, for each tag, one
\* that a bar above its limit leaves queued.
CancelOrders(id) ==
    { Order(id, "entry", "long", "market", 1, None, None, "a"),
      Order(id, "entry", "long", "limit", 1, 100, None, "a"),
      Order(id, "entry", "long", "limit", 1, 100, None, "b") }

\* uuid4().hex[:12] of the orders: a stream of distinct tokens, one order
\* longer than a strategy's.
CancelUuidStreams ==
    { [k \in 1..(MaxOrders + 1) |-> 300 + k] }

\* SimulatedBroker.__init__
InitCancel ==
    /\ InitSeries
    /\ InitContext
    /\ bars = <<>>
    /\ commission_model = ZeroCommission
    /\ slippage_model = ZeroSlippage
    /\ uuid_stream \in CancelUuidStreams
    /\ pc = "cancel"
    /\ bar_index = 0
    /\ order_queue = <<>>
    /\ action_map = EmptyMap
    /\ orders = <<>>
    /\ pending_orders = <<>>
    /\ portfolio = PortfolioInit(InitialCapital)
    /\ enq_bar = <<>>
    /\ match_log = {}
    /\ last_fills = <<>>
    /\ applied_log = <<>>
    /\ cancel_ret = <<>>
    /\ api_call = <<>>
    /\ OptIdle
    /\ run_no = 0
    /\ plan = <<>>
    /\ result1 = <<>>

\* SimulatedBroker.submit_order with a newly constructed Order.
CnlSubmitOrder ==
    /\ pc = "cancel"
    /\ Len(orders) < MaxOrders + 1
    /\ \E order \in CancelOrders(NextUuid) :
           /\ orders' = Append(orders, order)
           /\ pending_orders' = Append(pending_orders, Len(orders) + 1)
    /\ enq_bar' = Append(enq_bar, bar_index)
    /\ cancel_ret' = <<>>
    /\ UNCHANGED <<serVars, ctxVars, inputVars, loopVars, portfolio,
                   match_log, last_fills, applied_log, api_call, detVars, optVars>>

\* SimulatedBroker.cancel_all with a tag or with None; cancel_ret keeps the
\* argument and the returned count.
CnlCancelAll ==
    /\ pc = "cancel"
    /\ \E tag \in Tags \cup {AnyTag} :
           LET r == cancel_all(pending_orders, orders, tag)
           IN  /\ orders' = r.orders
               /\ pending_orders' = r.remaining
               /\ cancel_ret' = <<tag, r.cancelled>>
    /\ UNCHANGED <<serVars, ctxVars, inputVars, loopVars, portfolio, enq_bar,
                   match_log, last_fills, applied_log, api_call, detVars, optVars>>

\* SimulatedBroker.process_bar with the next bar; `bars` holds that bar.
CnlProcessBar ==
    /\ pc = "cancel"
    /\ bar_index < NumBars
    /\ \E shape \in BarShapes :
           LET bar == MkBar(shape, bar_index)
               r == process_bar(pending_orders, orders, bar,
                                commission_model, slippage_model)
           IN  /\ bars' = <<bar>>
               /\ orders' = r.orders
               /\ pending_orders' = r.remaining
               /\ last_fills' = r.fills
    /\ bar_index' = bar_index + 1
    /\ cancel_ret' = <<>>
    /\ UNCHANGED <<serVars, ctxVars, commission_model, slippage_model,
                   uuid_stream, pc, order_queue, action_map, portfolio,
                   enq_bar, match_log, applied_log, api_call, detVars, optVars>>

NextCancel ==
    \/ CnlSubmitOrder
    \/ CnlCancelAll
    \/ CnlProcessBar

SpecCancel == InitCancel /\ [][NextCancel]_vars

\* ------------------------------- the order methods of Strategy, in a run
\* A bar that trades at 100 and closes at 0.
ZeroCloseBar == [open |-> 100, high |-> 100, low |-> 0, close |-> 0]

\* Feeds for the order methods: every bar opens at 100; the second bar
\* closes at 100 or at 0.
ApiFeeds ==
    { [i \in 1..NumBars |->
           MkBar(IF i = 2 THEN second ELSE LowBar, i - 1)] :
          second \in {LowBar, ZeroCloseBar} }

ApiUuidStreams == { [k \in 1..(MaxOrders + 2) |-> 400 + k] }

\* entry calls: an explicit quantity that costs more than the initial
\* capital, and calls without qty: at market, with a limit, with both.
ApiEntryCalls ==
    { [tag |-> "a", side |-> "long", qty |-> 200, limit |-> None,
       stop |-> None],
      [tag |-> "b", side |-> "long", qty |-> None, limit |-> None,
       stop |-> None] }
    \cup { [tag |-> "a", side |-> "long", qty |-> None, limit |-> p[1],
            stop |-> p[2]] :
               p \in { <<100, None>>, <<100, 100>> } }

\* exit calls (tag, from_entry, limit, stop), qty omitted.
ApiExitCalls ==
    { [tag |-> "a", from_entry |-> "", limit |-> None, stop |-> None],
      [tag |-> "b", from_entry |-> "", limit |-> None, stop |-> 100],
      [tag |-> "b", from_entry |-> "a", limit |-> 100, stop |-> 100] }

\* Strategy.entry, qty omitted: the cash over the current close, times 99
\* over 100; zero when the close is not positive.
auto_size(cash, current_price) ==
    IF current_price > 0
    THEN ((cash \div current_price) * 99) \div 100
    ELSE 0

\* The two Decimal quotients of auto_size are whole numbers.
auto_size_whole(cash, current_price) ==
    current_price > 0 =>
        /\ cash % current_price = 0
        /\ ((cash \div current_price) * 99) % 100 = 0

\* EventLoop.submit_order for each of `new_orders`, in order, by the order
\* method `call`.
ApiSubmit(new_orders, action, call) ==
    /\ orders' = orders \o new_orders
    /\ order_queue' = order_queue \o
           [k \in 1..Len(new_orders) |-> <<Len(orders) + k, action>>]
    /\ enq_bar' = enq_bar \o [k \in 1..Len(new_orders) |-> ctx_bar_index]
    /\ api_call' = [call EXCEPT !.bar = ctx_bar_index,
                                !.queued = Len(order_queue)]
    /\ UNCHANGED <<serVars, ctxVars, inputVars, pc, bar_index, action_map,
                   pending_orders, portfolio, match_log, last_fills,
                   applied_log, cancel_ret, detVars, optVars>>

ApiCall(op, tag, qty, limit, stop) ==
    [op |-> op, tag |-> tag, qty |-> qty, limit |-> limit, stop |-> stop,
     bar |-> 0, queued |-> 0]

InitApi ==
    /\ InitSeries
    /\ InitContext
    /\ InitRunWith(ApiFeeds, {<<ZeroCommission, ZeroSlippage>>},
                   ApiUuidStreams)
    /\ run_no = 0

\* Strategy.entry, called from on_bar with or without qty.
ApiEntry ==
    /\ pc = "on_bar"
    /\ Len(orders) < MaxOrders
    /\ \E c \in ApiEntryCalls :
           LET current_price == series_registry[CLOSE].current
               qty == IF c.qty = None
                      THEN auto_size(portfolio.cash, current_price)
                      ELSE c.qty
           IN  /\ c.qty = None =>
                      auto_size_whole(portfolio.cash, current_price)
               /\ ApiSubmit(<<Order(NextUuid, "entry", c.side,
                                    order_type_of(c.limit, c.stop), qty,
                                    c.limit, c.stop, c.tag)>>,
                            "entry",
                            ApiCall("entry", c.tag, c.qty, c.limit, c.stop))

\* Strategy.exit, called from on_bar: no order when the tag looked up
\* (from_entry or tag) holds no position.
ApiExit ==
    /\ pc = "on_bar"
    /\ Len(orders) < MaxOrders + 2
    /\ \E c \in ApiExitCalls :
           LET tag == IF c.from_entry # "" THEN c.from_entry ELSE c.tag
               call == ApiCall("exit", tag, None, c.limit, c.stop)
           IN  IF has_position(portfolio, tag)
               THEN LET position == get_position(portfolio, tag)
                    IN  ApiSubmit(<<Order(NextUuid, "exit", position.side,
                                          order_type_of(c.limit, c.stop),
                                          position.quantity, c.limit,
                                          c.stop, tag)>>,
                                  "exit", call)
               ELSE ApiSubmit(<<>>, "exit", call)

\* Variant of close_orders that stops after the first tag that holds a
\* position.
close_orders_first(pf, tags, first_ref, stream) ==
    LET held == SelectSeq(tags, LAMBDA t : has_position(pf, t))
    IN  [k \in 1..Min(1, Len(held)) |->
            LET position == get_position(pf, held[k])
            IN  Order(stream[first_ref + k - 1], "close", position.side,
                      "market", position.quantity, None, None, held[k])]

\* The orders close_position makes for `tags`, in order: one CLOSE order at
\* market for each tag that holds a position.
close_orders(pf, tags, first_ref, stream) ==
    LET held == SelectSeq(tags, LAMBDA t : has_position(pf, t))
    IN  [k \in 1..Len(held) |->
            LET position == get_position(pf, held[k])
            IN  Order(stream[first_ref + k - 1], "close", position.side,
                      "market", position.quantity, None, None, held[k])]

\* Strategy.close_position, called from on_bar.
ApiClosePosition ==
    /\ pc = "on_bar"
    /\ Len(orders) < MaxOrders + 2
    /\ \E tag \in Tags :
           ApiSubmit(close_orders(portfolio, <<tag>>, Len(orders) + 1,
                                  uuid_stream),
                     "close", ApiCall("close_position", tag, None, None, None))

\* Strategy.close_all, called from on_bar: close_position for the tag of
\* every open position, in the order of the dict.
ApiCloseAll ==
    /\ pc = "on_bar"
    /\ Len(orders) + Len(portfolio.positions) <= MaxOrders + 2
    /\ ApiSubmit(close_orders(portfolio,
                              [k \in DOMAIN portfolio.positions |->
                                   portfolio.positions[k].tag],
                              Len(orders) + 1, uuid_stream),
                 "close", ApiCall("close_all", "", None, None, None))

\* EventLoop.run with a strategy that calls the order methods.
NextApi ==
    \/ ProcessBarBegin
    \/ ApiEntry
    \/ ApiExit
    \/ ApiClosePosition
    \/ ApiCloseAll
    \/ ProcessBarEnd
    \/ RunEnd

SpecApi == InitApi /\ [][NextApi]_vars

\* ------------------------------------------- a longer run on one tag
\* Feeds of NumBars + 1 bars that trade at 100 up to some bar after the
\* second and at 300 from then on.
TradeFeeds ==
    { [i \in 1..(NumBars + 1) |->
           MkBar(IF i >= first_high THEN HighBar ELSE LowBar, i - 1)] :
          first_high \in {3, 4} }

\* entry calls of the run: tag "a" at market, on either side.
TradeEntryCalls ==
    { [tag |-> "a", side |-> sd, qty |-> 2, limit |-> None, stop |-> None] :
          sd \in Sides }

\* exit calls of the run: all of the position with a limit of 300, or a
\* part of it at market.
TradeExitCalls ==
    { [tag |-> "a", qty |-> None, limit |-> 300, stop |-> None],
      [tag |-> "a", qty |-> 1, limit |-> None, stop |-> None] }

InitTrade ==
    /\ InitSeries
    /\ InitContext
    /\ InitRunWith(TradeFeeds, {DetConfig}, ApiUuidStreams)
    /\ run_no = 0

\* Strategy.entry with an explicit qty, called from on_bar.
TradeEntry ==
    /\ pc = "on_bar"
    /\ Len(orders) < MaxOrders + 2
    /\ \E c \in TradeEntryCalls :
           /\ Decide(Call("entry", c.tag, c.side, c.qty, c.limit, c.stop))
           /\ SubmitOrder(Order(NextUuid, "entry", c.side,
                                order_type_of(c.limit, c.stop),
                                c.qty, c.limit, c.stop, c.tag), "entry")

\* Strategy.exit with or without qty, called from on_bar while the tag
\* holds a position.
TradeExit ==
    /\ pc = "on_bar"
    /\ Len(orders) < MaxOrders + 2
    /\ \E c \in TradeExitCalls :
           /\ has_position(portfolio, c.tag)
           /\ Decide(Call("exit", c.tag, "", c.qty, c.limit, c.stop))
           /\ LET position == get_position(portfolio, c.tag)
              IN  SubmitOrder(Order(NextUuid, "exit", position.side,
                                    order_type_of(c.limit, c.stop),
                                    IF c.qty = None THEN position.quantity
                                    ELSE c.qty,
                                    c.limit, c.stop, c.tag), "exit")

\* Strategy.close_position, called from on_bar while the tag holds a
\* position.
TradeClosePosition ==
    /\ pc = "on_bar"
    /\ Len(orders) < MaxOrders + 2
    /\ has_position(portfolio, "a")
    /\ Decide(Call("close_position", "a", "", None, None, None))
    /\ LET position == get_position(portfolio, "a")
       IN  SubmitOrder(Order(NextUuid, "close", position.side, "market",
                             position.quantity, None, None, "a"), "close")

\* EventLoop.run with a strategy that trades one tag over a longer feed.
NextTrade ==
    \/ ProcessBarBegin
    \/ TradeEntry
    \/ TradeExit
    \/ TradeClosePosition
    \/ ProcessBarEnd
    \/ RunEnd

SpecTrade == InitTrade /\ [][NextTrade]_vars

\* ============================================================== optimizer
\* Names of the parameter descriptors of a strategy class, in the order of
\* the class body.
ParamNames == <<"fast", "slow", "mode">>

\* ParameterRange
ParameterRange(name, values) == [name |-> name, values |-> values]

\* The k values of the i-th descriptor (IntParam.range, EnumParam.choices):
\* distinct values.
DimValues(i, k) == [j \in 1..k |-> 10 * i + j]

RECURSIVE SizeProduct(_)
SizeProduct(rs) ==
    IF rs = <<>> THEN 1 ELSE Len(Head(rs).values) * SizeProduct(Tail(rs))

\* ParameterSpace.from_strategy: one range per descriptor; a descriptor may
\* have no value at all (min_val above max_val).
Spaces ==
    { sp \in UNION { { [i \in 1..n |->
                            ParameterRange(ParamNames[i],
                                           DimValues(i, size[i]))] :
                           size \in [1..n -> 0..MaxValues] } :
                     n \in 0..MaxDims } :
          SizeProduct(sp) <= MaxTrials }

\* ParameterSpace.total_combinations
total_combinations(rs) ==
    IF rs = <<>> THEN 0 ELSE SizeProduct(rs)

\* itertools.product(*value_lists): the tuples in order, the last list
\* varying fastest; one empty tuple for no list.
RECURSIVE product(_)
product(value_lists) ==
    IF value_lists = <<>> THEN << <<>> >>
    ELSE LET h == Head(value_lists)
             rest == product(Tail(value_lists))
         IN  [m \in 1..(Len(h) * Len(rest)) |->
                 <<h[((m - 1) \div Len(rest)) + 1]>>
                     \o rest[((m - 1) % Len(rest)) + 1]]

\* dict(zip(names, combo)): the last value given to a name is kept.
dict_zip(names, combo) ==
    [n \in { names[i] : i \in DOMAIN names } |->
        combo[CHOOSE i \in DOMAIN names :
                  /\ names[i] = n
                  /\ \A j \in DOMAIN names : names[j] = n => j <= i]]

\* ParameterSpace.grid_iter, as the list of what it yields.
grid_iter(rs) ==
    IF rs = <<>> THEN << dict_zip(<<>>, <<>>) >>
    ELSE LET names == [i \in DOMAIN rs |-> rs[i].name]
             combos == product([i \in DOMAIN rs |-> rs[i].values])
         IN  [m \in DOMAIN combos |-> dict_zip(names, combos[m])]

\* TrialResult
TrialResult(trial_index, parameters, objective_value) ==
    [trial_index |-> trial_index, parameters |-> parameters,
     objective_value |-> objective_value]

\* Objective values a backtest yields.
ObjValues == {1, 2}

\* objective_value of the TrialResult recorded for a future that raised.
FailedObjective == -999

\* What BacktestRunner.run and the objective do for one parameter set: the
\* objective value they return, or an exception.
Returns(v) == [raises |-> FALSE, value |-> v]
Raises == [raises |-> TRUE, value |-> None]
TrialOutcomes == { Returns(v) : v \in ObjValues } \cup {Raises}

\* Variant of sort_by_trial_index that leaves the list as it is.
sort_by_trial_index_none(rs) == rs

\* results.sort(key=lambda r: r.trial_index): a stable sort.
RECURSIVE sort_by_trial_index(_)
sort_by_trial_index(rs) ==
    IF rs = <<>> THEN <<>>
    ELSE LET r == rs[Len(rs)]
             s == sort_by_trial_index(SubSeq(rs, 1, Len(rs) - 1))
             pos == Cardinality({ i \in DOMAIN s :
                                      s[i].trial_index <= r.trial_index })
         IN  SubSeq(s, 1, pos) \o <<r>> \o SubSeq(s, pos + 1, Len(s))

\* Variant of best_of that takes the first trial.
best_of_first(rs, maximise) == rs[1]

\* max(results, key=objective_value) or min(...): the first of the trials
\* with the extreme value.
best_of(rs, maximise) ==
    rs[CHOOSE i \in DOMAIN rs :
           /\ \A j \in DOMAIN rs :
                  IF maximise
                  THEN rs[j].objective_value <= rs[i].objective_value
                  ELSE rs[j].objective_value >= rs[i].objective_value
           /\ \A j \in 1..(i - 1) :
                  rs[j].objective_value # rs[i].objective_value]

\* GridSearchOptimizer.__init__: a space, an objective, a number of workers.
\* No backtest of the other specifications is running.
InitGrid ==
    /\ InitSeries
    /\ InitContext
    /\ bars = <<>>
    /\ commission_model = ZeroCommission
    /\ slippage_model = ZeroSlippage
    /\ uuid_stream = <<>>
    /\ pc = "grid"
    /\ bar_index = 0
    /\ order_queue = <<>>
    /\ action_map = EmptyMap
    /\ orders = <<>>
    /\ pending_orders = <<>>
    /\ portfolio = PortfolioInit(InitialCapital)
    /\ enq_bar = <<>>
    /\ match_log = {}
    /\ last_fills = <<>>
    /\ applied_log = <<>>
    /\ cancel_ret = <<>>
    /\ api_call = <<>>
    /\ run_no = 0
    /\ plan = <<>>
    /\ result1 = <<>>
    /\ ranges \in Spaces
    /\ max_workers \in {1, 2}
    /\ maximize \in BOOLEAN
    /\ param_sets = <<>>
    /\ futures = {}
    /\ results = <<>>
    /\ completed = <<>>
    /\ opt_result = <<>>
    /\ backtest_of \in [{ m - 1 : m \in DOMAIN grid_iter(ranges) } ->
                           TrialOutcomes]

OptFrame ==
    UNCHANGED <<serVars, ctxVars, inputVars, bar_index, order_queue,
                action_map, brokerVars, portfolio, histVars, detVars,
                ranges, max_workers, maximize, backtest_of>>

\* GridSearchOptimizer.run up to the call of run_parallel_trials, and that
\* function up to its first trial: in parallel mode a future is submitted
\* for every parameter set.
GridRun ==
    /\ pc = "grid"
    /\ param_sets' = grid_iter(ranges)
    /\ IF max_workers <= 1
       THEN pc' = "sequential" /\ futures' = {}
       ELSE pc' = "parallel"
            /\ futures' = { i - 1 : i \in DOMAIN grid_iter(ranges) }
    /\ UNCHANGED <<results, completed, opt_result>>
    /\ OptFrame

\* GridSearchOptimizer._evaluate_trial for the parameter set of a trial: a
\* new strategy instance, the parameters set on it, a new BacktestRunner
\* (and with it a new context, loop, broker and portfolio) on the feed and
\* the configuration, and the objective read from its result.  Nothing of
\* it outlives the call, so the outcome is that of a backtest of the
\* parameter set run alone.
evaluate_trial(idx) == backtest_of[idx]

\* run_parallel_trials, sequential mode: the next trial returns.
SeqTrial ==
    /\ pc = "sequential"
    /\ Len(results) < Len(param_sets)
    /\ ~evaluate_trial(Len(results)).raises
    /\ results' = Append(results,
                         TrialResult(Len(results),
                                     param_sets[Len(results) + 1],
                                     evaluate_trial(Len(results)).value))
    /\ UNCHANGED <<pc, param_sets, futures, completed, opt_result>>
    /\ OptFrame

\* run_parallel_trials, sequential mode: the next trial raises, and the
\* exception leaves run_parallel_trials and run.
SeqTrialRaises ==
    /\ pc = "sequential"
    /\ Len(results) < Len(param_sets)
    /\ evaluate_trial(Len(results)).raises
    /\ pc' = "opt_raised"
    /\ UNCHANGED <<param_sets, futures, results, completed, opt_result>>
    /\ OptFrame

\* run_parallel_trials, sequential mode: the loop is over.
SeqReturn ==
    /\ pc = "sequential"
    /\ Len(results) = Len(param_sets)
    /\ pc' = "best"
    /\ UNCHANGED <<param_sets, futures, results, completed, opt_result>>
    /\ OptFrame

\* Whether executor.submit can hand the trial function to a worker process.
\* run passes the closure trial_fn it defines in its own body, and a function
\* defined inside a function cannot be pickled.
trial_fn_picklable == FALSE

\* run_parallel_trials, parallel mode: as_completed yields a future, any of
\* those not yet yielded.  future.result() returns the TrialResult of the
\* worker, or raises (the trial function could not be pickled, or the trial
\* raised) and the except branch records the trial as failed.
ParTrial ==
    /\ pc = "parallel"
    /\ \E idx \in futures :
           /\ results' = Append(results,
                  TrialResult(idx, param_sets[idx + 1],
                              IF trial_fn_picklable
                                 /\ ~evaluate_trial(idx).raises
                              THEN evaluate_trial(idx).value
                              ELSE FailedObjective))
           /\ futures' = futures \ {idx}
           /\ completed' = Append(completed, idx)
    /\ UNCHANGED <<pc, param_sets, opt_result>>
    /\ OptFrame

\* run_parallel_trials, parallel mode: every future was yielded; sort.
ParReturn ==
    /\ pc = "parallel"
    /\ futures = {}
    /\ results' = sort_by_trial_index(results)
    /\ pc' = "best"
    /\ UNCHANGED <<param_sets, futures, completed, opt_result>>
    /\ OptFrame

\* GridSearchOptimizer.run after run_parallel_trials: max and min raise
\* ValueError on an empty list.
FindBest ==
    /\ pc = "best"
    /\ IF results = <<>>
       THEN pc' = "opt_raised" /\ UNCHANGED opt_result
       ELSE LET best == best_of(results, maximize)
            IN  /\ opt_result' = [method |-> "grid",
                                  total_trials |-> Len(param_sets),
                                  best_params |-> best.parameters,
                                  best_value |-> best.objective_value,
                                  all_trials |-> results]
                /\ pc' = "opt_done"
    /\ UNCHANGED <<param_sets, futures, results, completed>>
    /\ OptFrame

NextGrid ==
    \/ GridRun
    \/ SeqTrial
    \/ SeqTrialRaises
    \/ SeqReturn
    \/ ParTrial
    \/ ParReturn
    \/ FindBest

SpecGrid == InitGrid /\ [][NextGrid]_vars

\* ================================================================ claims
Ok(v) == [err |-> "", val |-> v]

\* C4. Context batch atomicity: commit_all leaves every registered series
\* (built-in or added later) without a staged value and with exactly one
\* more committed value, the older values shifted back by one and the oldest
\* evicted when the buffer was full, the new value being the staged one when
\* one was staged; rollback_all leaves every registered series without a
\* staged value and with its committed history unchanged.
C4_ContextBatchAtomicity ==
    [][ /\ (ctx_last' = "commit_all") =>
              /\ Len(series_registry') = Len(series_registry)
              /\ \A i \in DOMAIN series_registry :
                    LET old == series_registry[i]
                        new == series_registry'[i]
                    IN  /\ new.current = SENTINEL
                        /\ Len(new.buffer)
                             = Min(Len(old.buffer) + 1, old.max_bars_back)
                        /\ \A j \in 2..Len(new.buffer) :
                              new.buffer[j] = old.buffer[j - 1]
                        /\ old.current # SENTINEL => new.buffer[1] = old.current
        /\ (ctx_last' = "rollback_all") =>
              /\ Len(series_registry') = Len(series_registry)
              /\ \A i \in DOMAIN series_registry :
                    /\ series_registry'[i].current = SENTINEL
                    /\ series_registry'[i].buffer = series_registry[i].buffer
      ]_vars

\* C4 witness: commit_all has just committed a context that holds a user
\* series next to the built-ins, both with a value that had been staged.
C4_Witness ==
    /\ ctx_last = "commit_all"
    /\ Len(series_registry) > 6
    /\ Len(series_registry[7].buffer) > 0
    /\ series_registry[7].buffer[1] \in SeriesValues
    /\ Len(series_registry[CLOSE].buffer) > 1
    /\ series_registry[CLOSE].buffer[1] # series_registry[CLOSE].buffer[2]

\* C5. Series index semantics: [0] is the staged value when one is staged,
\* else the most recently committed value; [i] for i > 0 is the value
\* committed i-1 commits before the newest when a value is staged and i
\* commits before the newest when none is (ser_log lists the committed values
\* oldest first).
C5_SeriesIndexSemantics ==
    LET n == Len(ser_log)
        staged == ser.current # SENTINEL
    IN  /\ staged => get_single(ser, 0) = Ok(ser.current)
        /\ (~staged /\ n > 0) => get_single(ser, 0) = Ok(ser_log[n])
        /\ \A i \in 1..(MaxBarsBack + 1) :
              /\ (staged /\ i - 1 < series_len(ser))
                    => get_single(ser, i) = Ok(ser_log[n - (i - 1)])
              /\ (~staged /\ i < series_len(ser))
                    => get_single(ser, i) = Ok(ser_log[n - i])

\* C5 witness: a value is staged over two different committed values.
C5_Witness ==
    /\ ser.current # SENTINEL
    /\ series_len(ser) >= 2
    /\ ser.buffer[1] # ser.buffer[2]
    /\ ser.current # ser.buffer[1]
    /\ get_single(ser, 1).val = ser.buffer[1]

\* C6. Series round-trip: after k values were staged and committed to a fresh
\* series, k <= max_bars_back, [0] is the last of them, [k-1] the first and
\* the length is k.
C6_SeriesRoundTrip ==
    LET k == Len(ser_log)
    IN  (ser_pure /\ ser.current = SENTINEL /\ k >= 1 /\ k <= ser.max_bars_back)
            => /\ get_single(ser, 0) = Ok(ser_log[k])
               /\ get_single(ser, k - 1) = Ok(ser_log[1])
               /\ series_len(ser) = k

\* C6 witness: max_bars_back values, the first unlike the last, were staged
\* and committed.
C6_Witness ==
    /\ ser_pure
    /\ ser.current = SENTINEL
    /\ Len(ser_log) = ser.max_bars_back
    /\ Len(ser_log) >= 2
    /\ ser_log[1] # ser_log[Len(ser_log)]
    /\ get_single(ser, 0).val = ser_log[Len(ser_log)]

\* ----------------------------------------------------------------------
Range(seq) == { seq[k] : k \in DOMAIN seq }

\* The order object a fill's order_id names.
RefOf(id) == CHOOSE r \in DOMAIN orders : orders[r].id = id

\* The index of the last bar the broker has matched orders against.
LastMatchedBar == IF pc = "on_bar" THEN bar_index ELSE bar_index - 1

\* C1. No look-ahead: an order the strategy enqueues during on_bar of bar n
\* is never matched against a bar before n+1; it reaches the broker only
\* after on_bar of bar n returned; when it fills, filled_at is at least the
\* timestamp of bar n+1; and while on_bar of bar n runs it is still PENDING
\* and no fill of it has been applied.
C1_NoLookAhead ==
    \A ref \in DOMAIN orders :
        LET n == enq_bar[ref]
            o == orders[ref]
        IN  /\ \A m \in match_log : m[1] = ref => m[2] >= n + 1
            /\ ref \in Range(pending_orders) => bar_index > n
            /\ o.status = "filled" =>
                  /\ n + 2 <= Len(bars)
                  /\ o.filled_at >= bars[n + 2].timestamp
            /\ (pc = "on_bar" /\ bar_index = n) =>
                  /\ o.status = "pending"
                  /\ ref \notin Range(pending_orders)
                  /\ \A k \in DOMAIN applied_log : applied_log[k][1] # o.id

\* C1 witness: an order enqueued on bar n was matched against bar n+1 and
\* filled there.
C1_Witness ==
    \E ref \in DOMAIN orders :
        /\ orders[ref].status = "filled"
        /\ <<ref, enq_bar[ref] + 1>> \in match_log
        /\ orders[ref].filled_at = bars[enq_bar[ref] + 2].timestamp
        /\ orders[ref].order_type = "limit"

\* C8. FIFO queue without expiry: the pending queue is in submission order;
\* the fills of a bar are returned in submission order and applied by the
\* loop in that same order; an order that has reached the broker and is
\* still PENDING is in the queue, has been matched against every bar since
\* the one after its creation, and did not qualify on the last of them.
C8_FifoWithoutExpiry ==
    /\ \A i, j \in DOMAIN pending_orders :
          i < j => pending_orders[i] < pending_orders[j]
    /\ \A i, j \in DOMAIN last_fills :
          i < j => RefOf(last_fills[i].order_id) < RefOf(last_fills[j].order_id)
    /\ Len(applied_log) >= Len(last_fills)
    /\ \A k \in DOMAIN last_fills :
          applied_log[Len(applied_log) - Len(last_fills) + k][1]
              = last_fills[k].order_id
    /\ \A ref \in DOMAIN orders :
          (orders[ref].status = "pending" /\ enq_bar[ref] < bar_index) =>
              /\ ref \in Range(pending_orders)
              /\ \A b \in (enq_bar[ref] + 1)..LastMatchedBar :
                    <<ref, b>> \in match_log
              /\ pc = "on_bar" =>
                    try_fill(orders[ref], CurBar, commission_model,
                             slippage_model) = <<>>

\* C8 witness: two orders filled on one bar, and their ids are not in
\* submission order.
C8_Witness ==
    /\ Len(last_fills) = 2
    /\ last_fills[1].order_id > last_fills[2].order_id
    /\ RefOf(last_fills[1].order_id) < RefOf(last_fills[2].order_id)
    /\ Len(applied_log) = 2

\* C9. A MARKET order enqueued on bar n, n not the last bar, is FILLED once
\* bar n+1 has been processed, with filled_at the timestamp of bar n+1 and
\* fill price the slippage-adjusted open of bar n+1 (the open itself under
\* zero slippage), and is no longer in the pending queue.
C9_MarketFillsNextOpen ==
    \A ref \in DOMAIN orders :
        LET n == enq_bar[ref]
            o == orders[ref]
            fill_side == IF IsExit(o.action)
                         THEN (IF o.side = "long" THEN "short" ELSE "long")
                         ELSE o.side
        IN  (o.order_type = "market" /\ n + 2 <= Len(bars)
                 /\ LastMatchedBar >= n + 1) =>
                /\ o.status = "filled"
                /\ o.filled_at = bars[n + 2].timestamp
                /\ o.fill_price = slippage_calculate(slippage_model,
                                                     bars[n + 2].open, fill_side)
                /\ slippage_model = ZeroSlippage => o.fill_price = bars[n + 2].open
                /\ ref \notin Range(pending_orders)

\* C9 witness: a MARKET exit order filled at the next bar's open under zero
\* slippage, on a bar whose open differs from its close.
C9_Witness ==
    \E ref \in DOMAIN orders :
        /\ orders[ref].order_type = "market"
        /\ orders[ref].action = "exit"
        /\ orders[ref].status = "filled"
        /\ slippage_model = ZeroSlippage
        /\ orders[ref].fill_price = bars[enq_bar[ref] + 2].open
        /\ bars[enq_bar[ref] + 2].open # bars[enq_bar[ref] + 2].close

\* ----------------------------------------------------------------------
\* The matching condition of a LIMIT order on a bar: low <= limit for a LONG
\* entry and a SHORT exit or close, high >= limit for a LONG exit or close
\* and a SHORT entry.
LimitQualifies(o, bar) ==
    IF (o.side = "long" /\ o.action = "entry")
           \/ (o.side = "short" /\ o.action \in {"exit", "close"})
    THEN bar.low <= o.limit_price
    ELSE bar.high >= o.limit_price

\* C10. LIMIT matching: when process_bar handles a bar, a queued LIMIT order
\* with a limit price fills if and only if the bar meets its matching
\* condition; when it fills, the order's fill price and the returned fill's
\* price are the limit price and the order leaves the queue; otherwise the
\* order is unchanged, stays in the queue and no fill is returned for it.
C10_LimitMatching ==
    [][ (bar_index' = bar_index + 1) =>
          \A k \in DOMAIN pending_orders :
              LET ref == pending_orders[k]
                  o == orders[ref]
                  bar == bars'[1]
                  fills_of_o == { i \in DOMAIN last_fills' :
                                      last_fills'[i].order_id = o.id }
              IN  (o.order_type = "limit" /\ o.limit_price # None) =>
                      IF LimitQualifies(o, bar)
                      THEN /\ orders'[ref].status = "filled"
                           /\ orders'[ref].fill_price = o.limit_price
                           /\ ref \notin Range(pending_orders')
                           /\ Cardinality(fills_of_o) = 1
                           /\ \A i \in fills_of_o :
                                 last_fills'[i].price = o.limit_price
                      ELSE /\ orders'[ref] = o
                           /\ ref \in Range(pending_orders')
                           /\ fills_of_o = {}
      ]_vars

\* C10 witness: a SHORT exit LIMIT order filled at its limit price on a bar
\* whose open, high and low all differ from the limit, under a slippage
\* model that moves MARKET prices.
C10_Witness ==
    \E ref \in DOMAIN orders :
        /\ pc = "broker"
        /\ orders[ref].order_type = "limit"
        /\ orders[ref].side = "short"
        /\ orders[ref].action = "exit"
        /\ orders[ref].status = "filled"
        /\ orders[ref].fill_price = orders[ref].limit_price
        /\ orders[ref].filled_at = bars[1].timestamp
        /\ bars[1].open # orders[ref].limit_price
        /\ bars[1].low # orders[ref].limit_price
        /\ bars[1].high # orders[ref].limit_price
        /\ slippage_model # ZeroSlippage

\* ----------------------------------------------------------------------
\* Sum of the realized P&L of the closed trades.
RealizedPnl(pf) ==
    LET total[k \in 0..Len(pf.trade_results)] ==
            IF k = 0 THEN 0 ELSE total[k - 1] + pf.trade_results[k].pnl
    IN  total[Len(pf.trade_results)]

\* Sum, over the open positions, of the unrealized P&L at price p less the
\* entry commission.
OpenPnl(pf, p) ==
    LET total[k \in 0..Len(pf.positions)] ==
            IF k = 0 THEN 0
            ELSE total[k - 1] + unrealized_pnl(pf.positions[k], p)
                              - pf.positions[k].commission_entry
    IN  total[Len(pf.positions)]

\* C2. Cash conservation: at every price p, equity(p) equals initial_capital
\* plus the realized P&L of the closed trades plus the unrealized P&L at p of
\* the open positions minus the entry commissions of the open positions.
C2_CashConservation ==
    \A p \in {100, 200, 300} :
        equity(portfolio, p)
            = portfolio.initial_capital + RealizedPnl(portfolio)
              + OpenPnl(portfolio, p)

\* C7. Order lifecycle: an order's status changes only from PENDING; the
\* pending queue holds only PENDING orders; an order is filled only when its
\* status was PENDING.
C7_OrderLifecycle ==
    [][ /\ \A ref \in DOMAIN orders :
              orders'[ref].status # orders[ref].status
                  => orders[ref].status = "pending"
        /\ \A k \in DOMAIN pending_orders' :
              orders'[pending_orders'[k]].status = "pending"
        /\ \A ref \in DOMAIN orders :
              (orders'[ref].status = "filled" /\ orders'[ref] # orders[ref])
                  => orders[ref].status = "pending"
      ]_vars

\* ----------------------------------------------------------------------
\* C3. Determinism: a second run of the same strategy over the same bars and
\* configuration ends with the same run_hash, final_equity, trades and equity
\* curve as the first, whatever ids uuid4 hands out; and during the second
\* run the strategy finds what each of its calls relies on (the position it
\* exits or closes, the pending orders it cancels) as in the first.
C3_Determinism ==
    /\ (run_no = 2 /\ pc = "done") => BacktestResult = result1
    /\ (run_no = 2 /\ pc = "on_bar" /\ plan # <<>> /\ Head(plan)[1] = bar_index) =>
          LET call == Head(plan)[2]
          IN  /\ call.op \in {"exit", "close_position"}
                    => has_position(portfolio, call.tag)
              /\ call.op = "cancel_all"
                    => cancel_all(pending_orders, orders, call.tag).cancelled > 0

\* C3 witness: the second run, made with other order ids, has ended after
\* replaying every call, and the runs closed a trade with a commission.
C3_Witness ==
    /\ run_no = 2
    /\ pc = "done"
    /\ plan = <<>>
    /\ uuid_stream \in UuidStreams2
    /\ Len(result1.trades) >= 1
    /\ result1.trades[1].commission > 0
    /\ Len(result1.equity_curve) = NumBars
    /\ BacktestResult.final_equity # InitialCapital

\* ----------------------------------------------------------------------
\* The order is an effective buy: LONG entry or SHORT exit/close.
EffectiveBuy(o) ==
    (o.side = "long" /\ o.action = "entry") \/ (o.side = "short" /\ IsExit(o.action))

StopQualifies(o, bar) ==
    IF EffectiveBuy(o) THEN bar.high >= o.stop_price ELSE bar.low <= o.stop_price

StopBasePrice(o, bar) ==
    IF EffectiveBuy(o) THEN Max(bar.open, o.stop_price)
    ELSE Min(bar.open, o.stop_price)

\* The price a fill had before slippage moved it against the order.
BaseOf(o, fill) ==
    IF EffectiveBuy(o) THEN fill.price - fill.slippage
    ELSE fill.price + fill.slippage

C12_StopLimitMatching ==
    [][ (bar_index' = bar_index + 1) =>
          \A k \in DOMAIN pending_orders :
              LET ref == pending_orders[k]
                  o == orders[ref]
                  bar == bars'[1]
                  fills_of_o == { i \in DOMAIN last_fills' :
                                      last_fills'[i].order_id = o.id }
              IN  (o.order_type = "stop_limit" /\ o.stop_price # None
                       /\ o.limit_price # None) =>
                      IF StopQualifies(o, bar) /\ LimitQualifies(o, bar)
                      THEN /\ orders'[ref].status = "filled"
                           /\ orders'[ref].fill_price = o.limit_price
                           /\ ref \notin Range(pending_orders')
                           /\ Cardinality(fills_of_o) = 1
                           /\ \A i \in fills_of_o :
                                  last_fills'[i].price = o.limit_price
                      ELSE /\ orders'[ref] = o
                           /\ ref \in Range(pending_orders')
                           /\ fills_of_o = {}
      ]_vars

\* A STOP-LIMIT order whose stop and limit differ, left queued by the first
\* bar and filled at its limit by a later bar meeting both conditions.
C12_Witness ==
    /\ pc = "match"
    /\ bar_index >= 2
    /\ bars # <<>>
    /\ \E ref \in DOMAIN orders :
           /\ orders[ref].order_type = "stop_limit"
           /\ orders[ref].limit_price # orders[ref].stop_price
           /\ orders[ref].status = "filled"
           /\ orders[ref].fill_price = orders[ref].limit_price
           /\ StopQualifies(orders[ref], bars[1])
           /\ LimitQualifies(orders[ref], bars[1])
           /\ orders[ref].filled_at = bars[1].timestamp

\* ----------------------------------------------------------------------
\* The order a fill was made for.
OrderOfFill(fill) == CHOOSE o \in Range(orders) : o.id = fill.order_id

\* C13. Slippage scope: under every slippage model a LIMIT or STOP-LIMIT fill
\* is priced at the order's limit price with zero recorded slippage, on the
\* fill and on the order; a MARKET or STOP fill is priced at the slippage
\* model's adjustment of the base price (the open, or the stop base price),
\* never below it for an effective buy (LONG entry, SHORT exit/close) and
\* never above it for an effective sell, and records the distance between
\* the two as its slippage.
C13_SlippageScope ==
    (pc = "match" /\ bars # <<>>) =>
        \A i \in DOMAIN last_fills :
            LET fill == last_fills[i]
                o == OrderOfFill(fill)
                bar == bars[1]
                base == IF o.order_type = "market" THEN bar.open
                        ELSE StopBasePrice(o, bar)
                amount == CASE slippage_model.kind = "zero" -> 0
                            [] slippage_model.kind = "fixed" -> slippage_model.arg
                            [] slippage_model.kind = "percentage" ->
                                   TimesRate(base, slippage_model.arg)
            IN  IF o.order_type \in {"limit", "stop_limit"}
                THEN /\ fill.price = o.limit_price
                     /\ fill.slippage = 0
                     /\ o.fill_price = o.limit_price
                     /\ o.slippage = 0
                ELSE /\ IF EffectiveBuy(o)
                        THEN fill.price = base + amount /\ fill.price >= base
                        ELSE fill.price = base - amount /\ fill.price <= base
                     /\ fill.slippage = amount
                     /\ o.fill_price = fill.price
                     /\ o.slippage = fill.slippage

\* A STOP order filled away from its base price under the percentage model.
C13_Witness ==
    /\ pc = "match"
    /\ slippage_model.kind = "percentage"
    /\ bars # <<>>
    /\ \E i \in DOMAIN last_fills :
           /\ OrderOfFill(last_fills[i]).order_type = "stop"
           /\ last_fills[i].slippage > 0
           /\ last_fills[i].price # StopBasePrice(OrderOfFill(last_fills[i]), bars[1])

\* ----------------------------------------------------------------------
\* A step of Portfolio.process_fill taken on the portfolio by itself; the
\* fill and the action of the call are last_fills'[1] and applied_log'[1][2].
IsFillStep == pc = "portfolio" /\ bar_index' = bar_index + 1

\* The dict key process_fill files a fill under.
TagOf(fill) == IF fill.tag = "" THEN "default" ELSE fill.tag

\* The open positions other than the one holding the tag, in dict order.
OthersThan(pf, tag) ==
    IF has_position(pf, tag) THEN RemoveAt(pf.positions, PositionIndex(pf, tag))
    ELSE pf.positions

\* The exit accounting of a position closed at price P with commission c:
\* the change of cash and the realized pnl.
ExitCash(pos, P, c) ==
    IF pos.side = "long" THEN P * pos.quantity - c ELSE 0 - (P * pos.quantity + c)

ExitPnl(pos, P, c) ==
    IF pos.side = "long"
    THEN (P - pos.entry_price) * pos.quantity - pos.commission_entry - c
    ELSE (pos.entry_price - P) * pos.quantity - pos.commission_entry - c

\* C14. Closing fill: an EXIT or CLOSE fill at price P with commission c for
\* a tag holding an open position of quantity q removes that position from
\* the open positions and leaves the others, changes cash by +(P*q - c) for
\* a LONG position and by -(P*q + c) for a SHORT one, and appends exactly one
\* TradeResult, whose pnl is (exit - entry)*q - commission_entry -
\* commission_exit for LONG and (entry - exit)*q - commission_entry -
\* commission_exit for SHORT, with commission_exit = c.
C14_ClosingFill ==
    [][ IsFillStep =>
          LET fill == last_fills'[1]
              action == applied_log'[1][2]
              tag == TagOf(fill)
          IN  (IsExit(action) /\ has_position(portfolio, tag)) =>
                  LET pos == get_position(portfolio, tag)
                      n == Len(portfolio.trade_results)
                      trade == portfolio'.trade_results[n + 1]
                  IN  /\ ~has_position(portfolio', tag)
                      /\ portfolio'.positions = OthersThan(portfolio, tag)
                      /\ portfolio'.cash =
                             portfolio.cash + ExitCash(pos, fill.price, fill.commission)
                      /\ Len(portfolio'.trade_results) = n + 1
                      /\ SubSeq(portfolio'.trade_results, 1, n) = portfolio.trade_results
                      /\ trade.pnl = ExitPnl(pos, fill.price, fill.commission)
                      /\ trade.entry_price = pos.entry_price
                      /\ trade.exit_price = fill.price
                      /\ trade.quantity = pos.quantity
                      /\ trade.side = pos.side
                      /\ trade.commission = pos.commission_entry + fill.commission
      ]_vars

\* A SHORT position closed by a fill of another quantity, at another price
\* and with a commission.
C14_Witness ==
    /\ pc = "portfolio"
    /\ applied_log # <<>>
    /\ IsExit(applied_log[1][2])
    /\ portfolio.positions = <<>>
    /\ Len(portfolio.trade_results) = 1
    /\ portfolio.trade_results[1].side = "short"
    /\ portfolio.trade_results[1].exit_time = last_fills[1].timestamp
    /\ portfolio.trade_results[1].quantity # last_fills[1].quantity
    /\ portfolio.trade_results[1].entry_price # portfolio.trade_results[1].exit_price
    /\ last_fills[1].commission = 10
    /\ portfolio.trade_results[1].commission = 10

\* ----------------------------------------------------------------------
\* The entry accounting of a fill: the change of cash.
EntryCash(fill) ==
    IF fill.side = "long" THEN 0 - (fill.price * fill.quantity + fill.commission)
    ELSE fill.price * fill.quantity - fill.commission

\* The indices of the open positions holding the tag.
Holding(pf, tag) == { i \in DOMAIN pf.positions : pf.positions[i].tag = tag }

\* C15. Reversal: an ENTRY fill for a tag holding an open position of the
\* opposite side closes that position at the fill's price with exit
\* accounting (one TradeResult and one closed position appended, cash changed
\* as for a close with the fill's commission), then opens, with entry
\* accounting, a position of the fill's side, price and quantity under the
\* same tag; afterwards exactly one open position holds the tag, it has the
\* fill's side, and the positions of other tags are as before.
C15_Reversal ==
    [][ IsFillStep =>
          LET fill == last_fills'[1]
              action == applied_log'[1][2]
              tag == TagOf(fill)
          IN  (action = "entry" /\ has_position(portfolio, tag)
                   /\ get_position(portfolio, tag).side # fill.side) =>
                  LET pos == get_position(portfolio, tag)
                      n == Len(portfolio.trade_results)
                      m == Len(portfolio.closed_positions)
                      trade == portfolio'.trade_results[n + 1]
                      closed == portfolio'.closed_positions[m + 1]
                      new == get_position(portfolio', tag)
                  IN  /\ Len(portfolio'.trade_results) = n + 1
                      /\ SubSeq(portfolio'.trade_results, 1, n) = portfolio.trade_results
                      /\ trade.side = pos.side
                      /\ trade.entry_price = pos.entry_price
                      /\ trade.exit_price = fill.price
                      /\ trade.quantity = pos.quantity
                      /\ trade.pnl = ExitPnl(pos, fill.price, fill.commission)
                      /\ Len(portfolio'.closed_positions) = m + 1
                      /\ closed.status = "closed"
                      /\ closed.exit_price = fill.price
                      /\ closed.entry_time = pos.entry_time
                      /\ portfolio'.cash =
                             portfolio.cash
                                 + ExitCash(pos, fill.price, fill.commission)
                                 + EntryCash(fill)
                      /\ Cardinality(Holding(portfolio', tag)) = 1
                      /\ new.status = "open"
                      /\ new.side = fill.side
                      /\ new.entry_price = fill.price
                      /\ new.quantity = fill.quantity
                      /\ new.entry_time = fill.timestamp
                      /\ OthersThan(portfolio', tag) = OthersThan(portfolio, tag)
      ]_vars

\* A LONG position of tag "a" reversed into a SHORT one of another quantity
\* while a position of the default tag stays open.
C15_Witness ==
    /\ pc = "portfolio"
    /\ applied_log # <<>>
    /\ applied_log[1][2] = "entry"
    /\ last_fills[1].side = "short"
    /\ last_fills[1].tag = "a"
    /\ Len(portfolio.positions) = 2
    /\ has_position(portfolio, "default")
    /\ has_position(portfolio, "a")
    /\ get_position(portfolio, "a").side = "short"
    /\ get_position(portfolio, "a").entry_time = last_fills[1].timestamp
    /\ Len(portfolio.trade_results) = 1
    /\ portfolio.trade_results[1].side = "long"
    /\ portfolio.trade_results[1].exit_time = last_fills[1].timestamp
    /\ portfolio.trade_results[1].quantity # last_fills[1].quantity

C17_EndOfRun ==
    [][ (pc = "end" /\ pc' = "done") =>
          LET last_bar == bars[Len(bars)]
              last_index == Len(bars) - 1
              n == Len(portfolio.trade_results)
              m == Len(portfolio.closed_positions)
              open == portfolio.positions
              SumExit[k \in 0..Len(open)] ==
                  IF k = 0 THEN 0
                  ELSE SumExit[k - 1] + ExitCash(open[k], last_bar.close, 0)
          IN  /\ bars # <<>>
              /\ portfolio'.positions = <<>>
              /\ Len(portfolio'.trade_results) = n + Len(open)
              /\ SubSeq(portfolio'.trade_results, 1, n) = portfolio.trade_results
              /\ Len(portfolio'.closed_positions) = m + Len(open)
              /\ portfolio'.cash = portfolio.cash + SumExit[Len(open)]
              /\ \A k \in DOMAIN open :
                     LET trade == portfolio'.trade_results[n + k]
                         closed == portfolio'.closed_positions[m + k]
                     IN  /\ trade.entry_tag = open[k].tag
                         /\ trade.entry_time = open[k].entry_time
                         /\ trade.exit_tag = "backtest_end"
                         /\ trade.exit_price = last_bar.close
                         /\ trade.exit_time = last_bar.timestamp
                         /\ trade.bars_held = last_index - open[k].entry_bar
                         /\ trade.commission = open[k].commission_entry
                         /\ trade.pnl = ExitPnl(open[k], last_bar.close, 0)
                         /\ closed.tag = open[k].tag
                         /\ closed.status = "closed"
                         /\ closed.exit_bar = last_index
                         /\ closed.exit_price = last_bar.close
                         /\ closed.exit_tag = "backtest_end"
                         /\ closed.commission_exit = 0
      ]_vars

\* A finished run whose last two trades closed, at the end of the run, the
\* positions of two tags, one of them opened with a commission.
C17_Witness ==
    /\ pc = "done"
    /\ portfolio.positions = <<>>
    /\ Len(portfolio.trade_results) >= 2
    /\ LET n == Len(portfolio.trade_results)
           t1 == portfolio.trade_results[n - 1]
           t2 == portfolio.trade_results[n]
       IN  /\ t1.exit_tag = "backtest_end"
           /\ t2.exit_tag = "backtest_end"
           /\ t1.entry_tag # t2.entry_tag
           /\ t1.exit_price = bars[Len(bars)].close
           /\ t2.exit_price = bars[Len(bars)].close
           /\ t1.commission + t2.commission > 0

\* ----------------------------------------------------------------------
\* The field of a bar that BarContext.update stages into built-in series i.
BarField(bar, i) ==
    CASE i = OPEN -> bar.open
      [] i = HIGH -> bar.high
      [] i = LOW -> bar.low
      [] i = CLOSE -> bar.close
      [] i = VOLUME -> bar.volume
      [] i = TIME -> bar.timestamp

\* The state left by an on_bar that raised on bar n = bar_index: no
\* registered series has a staged value, the built-in series hold the
\* committed values of the bars before n, newest first, and nothing else; the
\* equity curve has the points of bars 0..n-1; the orders enqueued on bar n
\* are still PENDING, unstamped, and not in the broker's queue.
RaisedState ==
    LET n == bar_index
    IN  /\ \A i \in DOMAIN series_registry :
               LET s == series_registry[i]
               IN  /\ s.current = SENTINEL
                   /\ Len(s.buffer) = Min(n, s.max_bars_back)
                   /\ i <= 6 => \A j \in DOMAIN s.buffer :
                                    s.buffer[j] = BarField(bars[n + 1 - j], i)
        /\ \A j \in DOMAIN series_registry[TIME].buffer :
               series_registry[TIME].buffer[j] # bars[n + 1].timestamp
        /\ Len(portfolio.equity_curve) = n
        /\ \A i \in DOMAIN portfolio.equity_curve :
               /\ portfolio.equity_curve[i].bar_index = i - 1
               /\ portfolio.equity_curve[i].timestamp = bars[i].timestamp
        /\ \A ref \in DOMAIN orders :
               enq_bar[ref] = n =>
                   /\ ref \notin Range(pending_orders)
                   /\ orders[ref].status = "pending"
                   /\ orders[ref].created_bar = -1
                   /\ \A b \in 0..NumBars : <<ref, b>> \notin match_log
        /\ \A k \in DOMAIN order_queue : enq_bar[order_queue[k][1]] = n

\* C18. Strategy error handling: when on_bar raises on bar n the loop calls
\* rollback_all, the exception ends the run and no further bar is processed
\* (no step leaves the raised state).  In that state no registered series
\* holds a staged or committed value of bar n, the equity curve has exactly
\* the points of bars 0..n-1, no order enqueued during the failing on_bar has
\* reached the broker, and cash, open positions and trade results are what
\* they were when on_bar was entered (no step of on_bar, the raising one
\* included, changes the portfolio).
C18_StrategyError ==
    /\ [](pc = "raised" => (ctx_last = "rollback_all" /\ RaisedState))
    /\ [][ /\ pc # "raised"
           /\ (pc = "on_bar" /\ pc' \in {"on_bar", "raised"}) =>
                  portfolio' = portfolio
           /\ pc' = "raised" => pc = "on_bar"
         ]_vars

\* on_bar raised on a later bar after enqueueing an order, with a position
\* open and a committed history in the series.
C18_Witness ==
    /\ pc = "raised"
    /\ bar_index >= 2
    /\ order_queue # <<>>
    /\ portfolio.positions # <<>>
    /\ Len(portfolio.equity_curve) = bar_index
    /\ series_registry[CLOSE].current = SENTINEL
    /\ Len(series_registry[CLOSE].buffer) = MaxBarsBack

\* ----------------------------------------------------------------------
\* C19. One equity point per bar: whenever the loop has processed bars 0..k
\* without error the equity curve has exactly k+1 points, and the i-th point
\* carries bar_index i and the timestamp of bar i; after a complete run the
\* curve is as long as the feed.  The point of a bar is recorded in the step
\* that ends the bar: after the bar's fills were applied to the portfolio
\* (its cash and position value are those of the portfolio after the fills)
\* and after the orders the strategy enqueued were handed to the broker.
C19_OneEquityPointPerBar ==
    /\ [](/\ Len(portfolio.equity_curve) = bar_index
          /\ \A i \in DOMAIN portfolio.equity_curve :
                 /\ portfolio.equity_curve[i].bar_index = i - 1
                 /\ portfolio.equity_curve[i].timestamp = bars[i].timestamp
          /\ pc \in {"end", "done"} =>
                 Len(portfolio.equity_curve) = Len(bars))
    /\ [][ (portfolio'.equity_curve # portfolio.equity_curve) =>
             LET n == Len(portfolio.equity_curve)
                 point == portfolio'.equity_curve[n + 1]
                 bar == bars[bar_index + 1]
             IN  /\ pc = "on_bar"
                 /\ Len(portfolio'.equity_curve) = n + 1
                 /\ SubSeq(portfolio'.equity_curve, 1, n) = portfolio.equity_curve
                 /\ point.bar_index = bar_index
                 /\ \A i \in DOMAIN last_fills :
                        \E k \in DOMAIN applied_log :
                            applied_log[k][1] = last_fills[i].order_id
                 /\ point.cash = portfolio.cash
                 /\ point.position_value = position_value(portfolio, bar.close)
                 /\ point.equity = point.cash + point.position_value
                 /\ order_queue' = <<>>
                 /\ \A k \in DOMAIN order_queue :
                        /\ order_queue[k][1] \in Range(pending_orders')
                        /\ orders'[order_queue[k][1]].created_bar = bar_index
         ]_vars

\* A complete run with one point per bar, in which a fill changed the cash
\* before a point was recorded and an order was queued when another was.
C19_Witness ==
    /\ pc = "done"
    /\ Len(portfolio.equity_curve) = NumBars
    /\ portfolio.equity_curve[1].cash = InitialCapital
    /\ portfolio.equity_curve[2].cash # InitialCapital
    /\ portfolio.equity_curve[2].position_value > 0
    /\ \E ref \in DOMAIN orders : orders[ref].created_bar = 1

\* ----------------------------------------------------------------------
\* The running maximum of the initial capital and the first i recorded
\* equities.
RunningPeak(pf, i) ==
    LET peak[k \in 0..i] ==
            IF k = 0 THEN pf.initial_capital
            ELSE Max(peak[k - 1], pf.equity_curve[k].equity)
    IN  peak[i]

\* C20. Running peak and drawdown: across any sequence of record_equity
\* calls peak_equity never decreases, is at least the initial capital and at
\* least every equity recorded so far (it is their running maximum); the
\* drawdown of each point is the quotient (peak - equity) / peak taken with
\* the peak as of that point, is never negative, and is 0 whenever the
\* point's equity sets or equals the peak.
C20_PeakAndDrawdown ==
    /\ [](/\ portfolio.peak_equity >= portfolio.initial_capital
          /\ portfolio.peak_equity =
                 RunningPeak(portfolio, Len(portfolio.equity_curve))
          /\ \A i \in DOMAIN portfolio.equity_curve :
                 LET point == portfolio.equity_curve[i]
                     peak == RunningPeak(portfolio, i)
                 IN  /\ portfolio.peak_equity >= point.equity
                     /\ peak > 0
                     /\ point.drawdown = <<peak - point.equity, peak>>
                     /\ point.drawdown[1] >= 0
                     /\ point.equity = peak => point.drawdown[1] = 0)
    /\ [][portfolio'.peak_equity >= portfolio.peak_equity]_vars

\* Equity recorded at a new peak above the initial capital and, later, below
\* that peak.
C20_Witness ==
    /\ pc = "portfolio"
    /\ Len(portfolio.equity_curve) >= 2
    /\ portfolio.peak_equity > portfolio.initial_capital
    /\ \E i, j \in DOMAIN portfolio.equity_curve :
           /\ i < j
           /\ portfolio.equity_curve[i].equity = portfolio.peak_equity
           /\ portfolio.equity_curve[i].drawdown[1] = 0
           /\ portfolio.equity_curve[j].drawdown[1] > 0
           /\ portfolio.equity_curve[j].drawdown[2] = portfolio.peak_equity

\* ----------------------------------------------------------------------
\* C21. Bounded history: under every sequence of set_current, commit and
\* rollback the committed length never exceeds max_bars_back; the buffer
\* holds the min(commits, max_bars_back) most recent committed values,
\* newest first, so a commit on a full buffer evicts the oldest value and
\* keeps the others in order.
C21_BoundedHistory ==
    LET n == Len(ser_log)
    IN  /\ Len(ser.buffer) <= ser.max_bars_back
        /\ Len(ser.buffer) = Min(n, ser.max_bars_back)
        /\ \A j \in DOMAIN ser.buffer : ser.buffer[j] = ser_log[n + 1 - j]

\* More commits than max_bars_back: the first committed value, different
\* from the later ones, is gone from the full buffer.
C21_Witness ==
    /\ Len(ser_log) > ser.max_bars_back
    /\ Len(ser.buffer) = ser.max_bars_back
    /\ ser_log[1] \notin Range(ser.buffer)
    /\ ser.buffer[1] # ser.buffer[Len(ser.buffer)]

Observed(s) ==
    [len |-> series_len(s), current |-> s.current,
     items |-> [i \in -1..(s.max_bars_back + 1) |-> get_single(s, i)]]

\* C23. Rollback frame: a rollback discards the staged value and leaves the
\* committed history, its length and every value, unchanged; so from a state
\* with nothing staged, set_current(v) followed by rollback() gives a series
\* observationally identical to the one before set_current, whose [0] is
\* again the most recent committed value; a rollback after a commit does not
\* undo the commit.
C23_RollbackFrame ==
    /\ [](ser.current = SENTINEL =>
              \A v \in SeriesValues :
                  LET after == rollback(set_current(ser, v))
                  IN  /\ Observed(after) = Observed(ser)
                      /\ after.buffer = ser.buffer
                      /\ Len(ser.buffer) > 0 =>
                             get_single(after, 0) = Ok(ser.buffer[1]))
    /\ [][ ser_last' = "rollback" =>
             /\ ser'.current = SENTINEL
             /\ ser'.buffer = ser.buffer
             /\ series_len(ser') = series_len(ser)
             /\ ser_log' = ser_log
             /\ Len(ser.buffer) > 0 => get_single(ser', 0) = Ok(ser.buffer[1])
         ]_vars

\* The series after a rollback over a committed history of two different
\* values: nothing is staged and [0], [1] are the committed values.
C23_Witness ==
    /\ ser_last = "rollback"
    /\ ser.current = SENTINEL
    /\ Len(ser.buffer) = 2
    /\ ser.buffer[1] # ser.buffer[2]
    /\ get_single(ser, 0) = Ok(ser.buffer[1])
    /\ get_single(ser, 1) = Ok(ser.buffer[2])

\* ----------------------------------------------------------------------
\* C24. cancel_all(tag): the call removes from the pending queue exactly the
\* orders whose tag is the given one (every order when no tag is given),
\* sets the status of each to CANCELLED and changes nothing else of it,
\* returns their number, and leaves the other queued orders in the queue,
\* unchanged and in their relative order; an order cancel_all cancelled is
\* never queued, changed or filled afterwards.
C24_CancelAll ==
    /\ [][ cancel_ret' # <<>> =>
             LET tag == cancel_ret'[1]
                 Hit(ref) == tag = AnyTag \/ orders[ref].tag = tag
                 Kept(ref) == ~Hit(ref)
                 hits == { k \in DOMAIN pending_orders : Hit(pending_orders[k]) }
             IN  /\ pending_orders' = SelectSeq(pending_orders, Kept)
                 /\ cancel_ret'[2] = Cardinality(hits)
                 /\ \A ref \in DOMAIN orders :
                        IF ref \in Range(pending_orders) /\ Hit(ref)
                        THEN /\ orders'[ref] = [orders[ref] EXCEPT !.status = "cancelled"]
                             /\ ref \notin Range(pending_orders')
                        ELSE orders'[ref] = orders[ref]
         ]_vars
    /\ [][ \A ref \in DOMAIN orders :
               orders[ref].status = "cancelled" =>
                   /\ orders'[ref] = orders[ref]
                   /\ ref \notin Range(pending_orders')
                   /\ \A i \in DOMAIN last_fills' :
                          last_fills'[i].order_id # orders[ref].id
         ]_vars

\* cancel_all("a") returned 1 with three orders queued: the two orders of
\* tag "b" around the cancelled one are still queued, in their order.
C24_Witness ==
    /\ pc = "cancel"
    /\ cancel_ret = <<"a", 1>>
    /\ Len(orders) = 3
    /\ pending_orders = <<1, 3>>
    /\ orders[1].status = "pending"
    /\ orders[2].status = "cancelled"
    /\ orders[3].status = "pending"

\* ------------------------------------------------------------------- C25
\* The bars whose processing the loop has finished: bar_index counts them
\* once the equity point of a bar is recorded.
BarFinished == pc \in {"bar", "end", "done"} /\ bar_index > 0

InCall(op) ==
    /\ pc = "on_bar"
    /\ api_call # <<>>
    /\ api_call.bar = ctx_bar_index
    /\ api_call.op = op

\* The order at the end of the loop's queue.
LastQueued == orders[order_queue[Len(order_queue)][1]]

\* C26. Auto-sizing: entry(tag, side) without qty enqueues one entry order
\* whose quantity is 99% of the portfolio's cash divided by the current
\* close, floored at zero (zero when the close is not positive): the
\* quantity is never negative, whatever earlier fills did to the cash.
C26_AutoSizeFloored ==
    (InCall("entry") /\ api_call.qty = None) =>
        LET cash == portfolio.cash
            close == series_registry[CLOSE].current
        IN  /\ Len(order_queue) = api_call.queued + 1
            /\ LastQueued.action = "entry"
            /\ LastQueued.quantity >= 0
            /\ LastQueued.quantity =
                   (IF close > 0
                    THEN Max(0, ((cash \div close) * 99) \div 100)
                    ELSE 0)

\* ------------------------------------------------------------------- C27
\* The orders the last call enqueued: the entries of the loop's queue after
\* the length it had before the call.
CallOrders ==
    [k \in 1..(Len(order_queue) - api_call.queued) |->
        [order |-> orders[order_queue[api_call.queued + k][1]],
         action |-> order_queue[api_call.queued + k][2]]]

\* The call enqueued exactly one order, of this action and of the type its
\* limit and stop arguments imply.
OneOrder(action) ==
    /\ Len(CallOrders) = 1
    /\ CallOrders[1].action = action
    /\ CallOrders[1].order.action = action
    /\ CallOrders[1].order.tag = api_call.tag
    /\ CallOrders[1].order.order_type
           = (IF api_call.limit # None /\ api_call.stop # None
              THEN "stop_limit"
              ELSE IF api_call.limit # None THEN "limit"
              ELSE IF api_call.stop # None THEN "stop"
              ELSE "market")

\* close_all enqueued one CLOSE order per open position, in their order.
OneClosePerPosition ==
    /\ Len(CallOrders) = Len(portfolio.positions)
    /\ \A k \in DOMAIN CallOrders :
           /\ CallOrders[k].action = "close"
           /\ CallOrders[k].order.action = "close"
           /\ CallOrders[k].order.order_type = "market"
           /\ CallOrders[k].order.tag = portfolio.positions[k].tag
           /\ CallOrders[k].order.quantity = portfolio.positions[k].quantity

\* C27 as stated: every call to entry, exit or close_position made during
\* on_bar enqueues exactly one order with the matching action and the type
\* implied by its arguments, whether or not a position with that tag is
\* open at the call, and close_all enqueues one CLOSE order per open
\* position.
C27_OneOrderPerCall ==
    /\ InCall("entry") => OneOrder("entry")
    /\ InCall("exit") => OneOrder("exit")
    /\ InCall("close_position") => OneOrder("close")
    /\ InCall("close_all") => OneClosePerPosition

\* C27, amended: entry always enqueues exactly one ENTRY order of the type
\* implied by limit and stop; exit and close_position enqueue exactly one
\* order (EXIT of the implied type, CLOSE at market) when the tag they look
\* up holds an open position at the call, and no order at all when it holds
\* none; close_all enqueues one CLOSE order per open position.
C27_OneOrderPerPosition ==
    /\ InCall("entry") => OneOrder("entry")
    /\ InCall("exit") =>
           IF has_position(portfolio, api_call.tag)
           THEN OneOrder("exit")
           ELSE Len(CallOrders) = 0
    /\ InCall("close_position") =>
           IF has_position(portfolio, api_call.tag)
           THEN OneOrder("close")
           ELSE Len(CallOrders) = 0
    /\ InCall("close_all") => OneClosePerPosition

\* close_all was called with the positions "a" and "b" open and enqueued
\* two CLOSE orders, for "a" and for "b".
C27_Witness ==
    /\ InCall("close_all")
    /\ Len(portfolio.positions) = 2
    /\ Len(CallOrders) = 2
    /\ CallOrders[1].order.tag # CallOrders[2].order.tag
    /\ CallOrders[2].order.action = "close"

\* exit was called for a tag without a position while the other tag held
\* one, and nothing was enqueued.
C27_VacantExit ==
    /\ InCall("exit")
    /\ ~has_position(portfolio, api_call.tag)
    /\ portfolio.positions # <<>>
    /\ Len(CallOrders) = 0

\* ------------------------------------------------------------------- C28
\* Position of the value a parameter set gives to dimension i, in the list
\* of values of that dimension.
ValuePos(params, i) ==
    CHOOSE k \in DOMAIN ranges[i].values :
        ranges[i].values[k] = params[ranges[i].name]

\* The choices of one value position per dimension.
Choices ==
    { c \in [DOMAIN ranges -> 1..(MaxValues + 1)] :
          \A i \in DOMAIN ranges : c[i] <= Len(ranges[i].values) }

\* The parameter set m comes before the parameter set n in Cartesian order:
\* at the first dimension where they differ, m holds the earlier value.
CartesianBefore(m, n) ==
    \E i \in DOMAIN ranges :
        /\ ValuePos(param_sets[m], i) < ValuePos(param_sets[n], i)
        /\ \A j \in 1..(i - 1) :
               ValuePos(param_sets[m], j) = ValuePos(param_sets[n], j)

\* What C28 says of the parameter sets grid_iter yielded.
GridEnumerated ==
    /\ Len(param_sets) = total_combinations(ranges)
    /\ total_combinations(ranges) = SizeProduct(ranges)
    /\ \A c \in Choices :
           Cardinality({ m \in DOMAIN param_sets :
                           \A i \in DOMAIN ranges :
                               param_sets[m][ranges[i].name]
                                   = ranges[i].values[c[i]] }) = 1
    /\ \A m \in 1..(Len(param_sets) - 1) : CartesianBefore(m, m + 1)
    /\ param_sets # <<>> =>
           \A i \in DOMAIN ranges :
               param_sets[1][ranges[i].name] = ranges[i].values[1]

\* What C28 says of the trials of a finished grid search.
OneTrialPerCombination ==
    /\ Len(opt_result.all_trials) = Len(param_sets)
    /\ \A k \in DOMAIN opt_result.all_trials :
           /\ opt_result.all_trials[k].trial_index = k - 1
           /\ opt_result.all_trials[k].parameters = param_sets[k]

\* C28. Grid enumeration: for every parameter space grid_iter yields
\* exactly total_combinations parameter sets, the product of the dimension
\* sizes; every combination of one value per dimension appears exactly
\* once, in Cartesian order (first dimension slowest) starting with the
\* first value of every dimension; and the grid optimizer runs exactly one
\* trial per combination, with trial_index equal to its position.
C28_GridEnumeration ==
    /\ pc # "grid" => GridEnumerated
    /\ pc = "opt_done" => OneTrialPerCombination

\* ------------------------------------------------------------------- C29
\* C29. Grid best selection: the OptimizationResult of a grid search names
\* as best_params and best_value the parameters and objective value of a
\* trial of all_trials whose objective value is the highest of all trials
\* for a maximize objective and the lowest of all trials for a minimize
\* objective; total_trials is the number of trials in all_trials.
C29_BestSelection ==
    pc = "opt_done" =>
        LET trials == opt_result.all_trials
        IN  /\ \E i \in DOMAIN trials :
                   /\ opt_result.best_params = trials[i].parameters
                   /\ opt_result.best_value = trials[i].objective_value
            /\ \A j \in DOMAIN trials :
                   IF maximize
                   THEN trials[j].objective_value <= opt_result.best_value
                   ELSE trials[j].objective_value >= opt_result.best_value
            /\ opt_result.total_trials = Len(trials)

\* A minimize search of four trials finished: the first trial has the
\* value 2, a later one the value 1, and the best value reported is 1 with
\* the parameters of a trial that is not the first.
C29_Witness ==
    /\ pc = "opt_done"
    /\ ~maximize
    /\ Len(opt_result.all_trials) = 4
    /\ opt_result.all_trials[1].objective_value = 2
    /\ opt_result.all_trials[3].objective_value = 1
    /\ opt_result.best_value = 1
    /\ opt_result.best_params # opt_result.all_trials[1].parameters

\* ------------------------------------------------------------------- C30
\* run_parallel_trials has returned.
TrialsReturned == pc \in {"best", "opt_done"}

\* C30. Trial ordering under concurrency: run_parallel_trials returns
\* exactly one result per parameter set, and for every i the result i has
\* trial_index i and the i-th parameter set, in sequential mode and in
\* parallel mode whatever the order in which the futures completed.
C30_TrialOrdering ==
    TrialsReturned =>
        /\ Len(results) = Len(param_sets)
        /\ \A k \in DOMAIN results :
               /\ results[k].trial_index = k - 1
               /\ results[k].parameters = param_sets[k]

\* A parallel run of four trials returned: the futures completed in the
\* order 3, 0, 2, 1, trial 2 failed, and the results are in the order of
\* the parameter sets.
C30_Witness ==
    /\ pc = "best"
    /\ max_workers > 1
    /\ completed = <<3, 0, 2, 1>>
    /\ Len(results) = 4
    /\ results[3].objective_value = FailedObjective
    /\ results[1].trial_index = 0
    /\ results[4].trial_index = 3
    /\ results[4].parameters = param_sets[4]

\* ------------------------------------------------------------------- C31
\* The trial of index idx is recorded in the results, as failed.
RecordedFailed(idx) ==
    \E k \in DOMAIN results :
        /\ results[k].trial_index = idx
        /\ results[k].objective_value = FailedObjective

\* The sentinel is worse than every value a backtest yields: below all of
\* them for a maximize objective, above all of them for a minimize one.
SentinelIsWorst ==
    \A v \in ObjValues :
        IF maximize THEN FailedObjective < v ELSE FailedObjective > v

\* C31. Trial failure containment: when a trial raises, in sequential as
\* well as in parallel mode, the optimization is not aborted and no other
\* trial is affected (every trial whose backtest returns is recorded with the
\* value it returned); the failed trial is recorded at its trial_index with a
\* sentinel objective that is worse than every real value, for a maximize
\* and for a minimize objective.
C31_FailureContainment ==
    /\ pc = "opt_raised" => param_sets = <<>>
    /\ TrialsReturned =>
           \A k \in DOMAIN results :
               IF evaluate_trial(k - 1).raises
               THEN RecordedFailed(k - 1) /\ SentinelIsWorst
               ELSE results[k].objective_value = evaluate_trial(k - 1).value

\* ------------------------------------------------------------------- C32
\* C32. Trial independence: the trial recorded for a parameter set carries
\* the objective value of a backtest of that parameter set run alone
\* (when that backtest returns one), whatever trials ran before it or
\* beside it, in sequential mode and in parallel mode whichever worker ran
\* it and in whatever order the trials completed.
C32_TrialIndependence ==
    \A k \in DOMAIN results :
        ~backtest_of[results[k].trial_index].raises =>
            results[k].objective_value
                = backtest_of[results[k].trial_index].value

\* ------------------------------------------------------------------- C33
\* C33. Run hash as fingerprint: two backtest runs that report the same
\* run_hash report the same trades, the same equity curve and the same
\* final_equity.
C33_RunHashFingerprint ==
    (run_no = 2 /\ pc = "done" /\ BacktestResult.run_hash = result1.run_hash)
        => /\ BacktestResult.trades = result1.trades
           /\ BacktestResult.equity_curve = result1.equity_curve
           /\ BacktestResult.final_equity = result1.final_equity

\* ------------------------------------------------------------------- C34
\* The fills gone over in the order the loop applied them, with the side
\* held under every tag: an ENTRY fill on a vacant tag opens, on the held
\* side it is ignored, on the other side it closes and opens; an EXIT or
\* CLOSE fill closes what the tag holds and is ignored on a vacant tag.
\* `closers` names, for each closed position but those force-closed at the
\* end of the run, in the order of closed_positions, the order whose fill
\* closed it; `acted` holds the orders whose fill was not ignored.
Replay ==
    LET step[k \in 0..Len(applied_log)] ==
            IF k = 0
            THEN [held |-> [t \in Tags |-> "none"], closers |-> <<>>,
                  acted |-> {}]
            ELSE LET prev == step[k - 1]
                     ref == CHOOSE r \in DOMAIN orders :
                                orders[r].id = applied_log[k][1]
                     o == orders[ref]
                     cur == prev.held[o.tag]
                     closed == Append(prev.closers, ref)
                     acted == prev.acted \cup {ref}
                 IN  IF applied_log[k][2] = "entry"
                     THEN IF cur = o.side THEN prev
                          ELSE [held |-> [prev.held EXCEPT ![o.tag] = o.side],
                                closers |-> IF cur = "none" THEN prev.closers
                                            ELSE closed,
                                acted |-> acted]
                     ELSE IF cur = "none" THEN prev
                          ELSE [held |-> [prev.held EXCEPT ![o.tag] = "none"],
                                closers |-> closed, acted |-> acted]
    IN  step[Len(applied_log)]

Closers == Replay.closers

\* The closed positions that an EXIT or CLOSE fill closed.
ClosedByFill ==
    { k \in DOMAIN Closers : IsExit(orders[Closers[k]].action) }

\* The order whose fill closed the k-th closed position.
ClosingOrder(k) == Closers[k]

\* C34. An EXIT or CLOSE order only ever closes the position that was open
\* under its tag when the order was created: a position closed by the fill
\* of such an order was opened no later than the bar on which the strategy
\* created the order, and never after it.
C34_ExitClosesItsPosition ==
    \A k \in ClosedByFill :
        LET p == portfolio.closed_positions[k]
        IN  p.entry_bar <= enq_bar[ClosingOrder(k)]

\* The case C34 names, reached by the run: a limit exit created for one
\* position stayed pending while a CLOSE order closed that position, an
\* entry opened another under the same tag, and the limit was then reached.
C34_StaleLimitExit ==
    \E k \in ClosedByFill :
        LET p == portfolio.closed_positions[k]
            o == orders[ClosingOrder(k)]
        IN  /\ o.order_type = "limit"
            /\ o.side = "long"
            /\ p.side = "long"
            /\ p.entry_bar > enq_bar[ClosingOrder(k)]
            /\ p.exit_bar > p.entry_bar
            /\ \E j \in ClosedByFill :
                   LET q == portfolio.closed_positions[j]
                   IN  /\ j < k
                       /\ q.entry_bar <= enq_bar[ClosingOrder(k)]
                       /\ orders[ClosingOrder(j)].action = "close"

\* ------------------------------------------------------------------- C35
\* Sum of f over the elements of a sequence.
SumSeq(seq, f(_)) ==
    LET total[k \in 0..Len(seq)] ==
            IF k = 0 THEN 0 ELSE total[k - 1] + f(seq[k])
    IN  total[Len(seq)]

TradePnl(t) == t.pnl

\* What an open position has moved out of (LONG) or into (SHORT) the cash.
OpenCash(pos) ==
    IF pos.side = "long"
    THEN 0 - (pos.entry_price * pos.quantity + pos.commission_entry)
    ELSE pos.entry_price * pos.quantity - pos.commission_entry

\* The cash is the initial capital, the pnl of every trade and what the open
\* positions moved.
CashAccounted ==
    portfolio.cash = portfolio.initial_capital
                     + SumSeq(portfolio.trade_results, TradePnl)
                     + SumSeq(portfolio.positions, OpenCash)

\* C35. An EXIT or CLOSE fill closes the entire position under its tag,
\* also when the exit order was created with a smaller qty: the trade and
\* its pnl are those of the position's full quantity, the cash moves by the
\* full quantity, no part of the position stays open, and the exit
\* commission is the one computed on the order's quantity.
C35_ExitClosesWholePosition ==
    /\ CashAccounted
    /\ \A k \in ClosedByFill :
           LET p == portfolio.closed_positions[k]
               o == orders[ClosingOrder(k)]
               t == portfolio.trade_results[k]
               gross == IF p.side = "long"
                        THEN (p.exit_price - p.entry_price) * p.quantity
                        ELSE (p.entry_price - p.exit_price) * p.quantity
           IN  /\ t.quantity = p.quantity
               /\ p.exit_price = o.fill_price
               /\ p.commission_exit
                      = commission_calculate(commission_model, o.fill_price,
                                             o.quantity)
               /\ t.pnl = gross - p.commission_entry - p.commission_exit
               /\ \A j \in DOMAIN portfolio.positions :
                      portfolio.positions[j].tag = p.tag
                          => portfolio.positions[j].entry_bar >= p.exit_bar

\* An exit order of quantity 1 closed a LONG position of quantity 2: the
\* trade has the quantity 2, its exit commission is the one of one unit, no
\* position is open and the cash is the initial capital plus the pnl.
C35_Witness ==
    /\ Len(portfolio.closed_positions) = 1
    /\ 1 \in ClosedByFill
    /\ portfolio.positions = <<>>
    /\ LET p == portfolio.closed_positions[1]
           o == orders[ClosingOrder(1)]
       IN  /\ o.action = "exit"
           /\ o.quantity = 1
           /\ p.side = "long"
           /\ p.quantity = 2
           /\ portfolio.trade_results[1].quantity = 2
           /\ p.commission_exit > 0
           /\ p.commission_exit
                  = commission_calculate(commission_model, o.fill_price, 1)
           /\ portfolio.cash = portfolio.initial_capital
                               + portfolio.trade_results[1].pnl

\* ------------------------------------------------------------------- C36
\* The orders whose fill the portfolio acted on.
ActedOn == Replay.acted

TradeCommission(t) == t.commission

\* Sum of the commissions of the fills of a set of orders.
RECURSIVE FillCommissions(_)
FillCommissions(refs) ==
    IF refs = {} THEN 0
    ELSE LET r == CHOOSE x \in refs : TRUE
         IN  orders[r].commission + FillCommissions(refs \ {r})

\* C36. Each accepted fill's commission is charged once and attributed to
\* one trade: once every position is closed, the commissions of the trade
\* results add up to the commissions of the fills the portfolio acted on,
\* and the cash is the initial capital plus the pnl of the trades,
\* reversals included.
C36_CommissionOnce ==
    portfolio.positions = <<>> =>
        /\ SumSeq(portfolio.trade_results, TradeCommission)
               = FillCommissions(ActedOn)
        /\ portfolio.cash = portfolio.initial_capital
                            + SumSeq(portfolio.trade_results, TradePnl)

\* ------------------------------------------------------------------- C37
\* C37. After a completed run the final_equity reported (the equity at the
\* last bar's close once every open position was force-closed at that close
\* without commission) equals the equity of the last point of the equity
\* curve, whether the positions open at the end were LONG or SHORT.
C37_FinalEquityIsLastPoint ==
    pc = "done" =>
        BacktestResult.final_equity
            = portfolio.equity_curve[Len(portfolio.equity_curve)].equity

\* ------------------------------------------------------------------- C38
\* The ids of the orders pending in the broker.
PendingIds == { orders[pending_orders[k]].id : k \in DOMAIN pending_orders }

\* Every fill applied so far was applied with the action its order was
\* submitted with.
AppliedAsSubmitted ==
    \A k \in DOMAIN applied_log :
        \E ref \in DOMAIN orders :
            /\ orders[ref].id = applied_log[k][1]
            /\ orders[ref].action = applied_log[k][2]

\* C38. Action bookkeeping: at the end of every bar the action map of the
\* loop holds an entry for exactly the orders pending in the broker, with
\* the action each was submitted with; filled and cancelled orders have no
\* entry; and every fill was applied to the portfolio with the action
\* recorded when its order was submitted.
C38_ActionBookkeeping ==
    /\ AppliedAsSubmitted
    /\ BarFinished =>
           /\ DOMAIN action_map = PendingIds
           /\ \A k \in DOMAIN pending_orders :
                  action_map[orders[pending_orders[k]].id]
                      = orders[pending_orders[k]].action

\* ------------------------------------------------------------------- C39
\* The trial was recorded as failed / with the value its backtest returned.
Failed(t) == t.objective_value = FailedObjective
Succeeded(t) == ~Failed(t)

\* C39. A failed trial is never reported as the best trial: whenever at
\* least one trial of a finished grid run succeeded, best_params and
\* best_value are those of a successful trial, for a maximize and for a
\* minimize objective.  No finished run holds a failed and a successful
\* trial together (a sequential run stops at the first trial that raises,
\* a parallel run records every trial as failed), so the formula holds
\* without its case ever arising.
C39_BestIsNeverFailed ==
    (pc = "opt_done"
       /\ \E k \in DOMAIN opt_result.all_trials :
              Succeeded(opt_result.all_trials[k]))
        => /\ opt_result.best_value # FailedObjective
           /\ \E k \in DOMAIN opt_result.all_trials :
                  /\ Succeeded(opt_result.all_trials[k])
                  /\ opt_result.best_params
                         = opt_result.all_trials[k].parameters
                  /\ opt_result.best_value
                         = opt_result.all_trials[k].objective_value

\* ------------------------------------------------------------------- C40
\* BarContext.create_series: the capacity a series gets when the caller
\* names none.
DefaultMaxBarsBack == 5000

\* Strategy.create_series: hands the name to the context and nothing else,
\* so the user series gets the default capacity of BarContext.create_series
\* whatever max_bars_back the loop was built with.
strategy_create_series(registry, name) ==
    create_series(registry, name, DefaultMaxBarsBack)

\* Feeds longer than max_bars_back whose consecutive closes differ.
HistoryFeeds ==
    { [i \in 1..(NumBars + 2) |->
           MkBar(CASE (i + off) % 3 = 1 -> RangeBar
                   [] (i + off) % 3 = 2 -> LowBar
                   [] OTHER -> HighBar, i - 1)] :
          off \in {0, 1} }

\* EventLoop.run up to the first bar: the loop is built with max_bars_back =
\* MaxBarsBack, the strategy is bound and its on_init has created one user
\* series.
InitHistory ==
    /\ InitSeries
    /\ bar_state = "new"
    /\ ctx_bar_index = -1
    /\ series_registry =
           strategy_create_series(ContextRegistryInit(MaxBarsBack), "user")
    /\ ctx_last = "create_series"
    /\ InitRunWith(HistoryFeeds, {DetConfig}, ApiUuidStreams)
    /\ run_no = 0

\* on_bar stages a value into its user series.
HistorySetUser ==
    /\ pc = "on_bar"
    /\ CtxSetUser

\* EventLoop.run with a strategy that keeps a user series and places no
\* order.
NextHistory ==
    \/ ProcessBarBegin
    \/ HistorySetUser
    \/ ProcessBarEnd
    \/ RunEnd

SpecHistory == InitHistory /\ [][NextHistory]_vars

\* The user series of the run.
UserSeries == series_registry[7]

\* The step of _process_bar that commits a bar on which the strategy staged
\* nothing into its user series.
CommitsUnsetUser ==
    /\ pc = "bar"
    /\ pc' = "on_bar"
    /\ bar_index > 0
    /\ UserSeries.current = SENTINEL

\* C40. History seen by the strategy: whenever on_bar runs for bar i, every
\* series registered before the first bar (the built-ins and the user series
\* created in on_init) has exactly min(i, max_bars_back) committed values,
\* max_bars_back being the one the loop was configured with; the built-ins
\* have the values of bar i staged; close[k] for 1 <= k <= i returns the
\* close of bar i - k; and a commit of a bar on which the user series was not
\* set repeats the series' newest committed value (stores None when there is
\* none).
C40_HistoryInLockstep ==
    /\ [](pc = "on_bar" =>
            LET i == bar_index
            IN  /\ \A j \in DOMAIN series_registry :
                       series_len(series_registry[j]) = Min(i, MaxBarsBack)
                /\ \A j \in 1..6 :
                       series_registry[j].current = BarField(bars[i + 1], j)
                /\ \A k \in 1..i :
                       get_single(series_registry[CLOSE], k)
                           = [err |-> "", val |-> bars[i - k + 1].close])
    /\ [][CommitsUnsetUser =>
              UserSeries'.buffer[1] =
                  (IF UserSeries.buffer = <<>> THEN None
                   ELSE UserSeries.buffer[1])]_vars

====
